---------------------------- MODULE Spec2Model ----------------------------
(***************************************************************************)
(* Portfolio valuation and risk engine of the crypto portfolio tracker:    *)
(* portfolio.calculate_portfolio_value and the functions of                *)
(* risk_analysis.py, as the dashboard script app.py calls them and as a    *)
(* caller of the functions on their own does (SpecEngine); the per-asset   *)
(* risk functions on one 24h change (SpecAsset); the ledger of             *)
(* portfolio.py behind the transaction forms of app.py, file operation by  *)
(* file operation, for one session (SpecLedger) and for two sessions on    *)
(* one ledger (SpecSessions); and the accounts of auth.py behind the       *)
(* login / signup page, for two sessions on one user store (SpecAuth).     *)
(*                                                                         *)
(* Numbers.                                                                *)
(* The program computes with Python floats, and so does the model: every   *)
(* sum, product, quotient and round() below is the IEEE 754 binary64       *)
(* operation, rounded to nearest-even as CPython does it, so that          *)
(* round(2.675, 2) is 2.67 and 2.7 / 4.5 * 100 is above 60. The one        *)
(* operation that is not correctly rounded is weight ** 2, which is the C  *)
(* library's pow: it returns either float next to the exact square.        *)
(***************************************************************************)
EXTENDS Integers, Sequences, FiniteSets

(***************************************************************************)
(* Bounds of the model.                                                    *)
(***************************************************************************)
MaxHoldings == 3
MaxScale == 3
MaxChangeTenths == 200
MaxTxns == 3

(***************************************************************************)
(* Natural numbers of any size: the sequence of their digits in base       *)
(* 2^15, least significant first.  A number is trimmed when it has no      *)
(* leading zero digit (0 is <<>>).                                         *)
(***************************************************************************)
Base == 32768
DigitBits == 15

Pow2Table == <<1, 2, 4, 8, 16, 32, 64, 128, 256, 512, 1024, 2048, 4096, 8192, 16384, 32768>>
Pow2(k) == Pow2Table[k + 1]

RECURSIVE Pow10(_)
Pow10(k) == IF k = 0 THEN 1 ELSE 10 * Pow10(k - 1)

IAbs(i) == IF i < 0 THEN -i ELSE i

\* The number of bits of a digit, counted once for every digit.
DigitLens == [d \in 0..(Base - 1) |-> Cardinality({k \in 1..DigitBits : Pow2Table[k] <= d})]
DigitLen(d) == DigitLens[d]

RECURSIVE BTrim(_)
BTrim(a) ==
    IF Len(a) = 0 THEN a
    ELSE IF a[Len(a)] = 0 THEN BTrim(SubSeq(a, 1, Len(a) - 1))
    ELSE a

RECURSIVE BFromInt(_)
BFromInt(i) == IF i = 0 THEN <<>> ELSE <<i % Base>> \o BFromInt(i \div Base)

BDigit(a, i) == IF i <= Len(a) THEN a[i] ELSE 0

RECURSIVE BAddFrom(_, _, _, _)
BAddFrom(a, b, i, carry) ==
    IF i > Len(a) /\ i > Len(b)
    THEN IF carry = 0 THEN <<>> ELSE <<carry>>
    ELSE LET s == BDigit(a, i) + BDigit(b, i) + carry
         IN  <<s % Base>> \o BAddFrom(a, b, i + 1, s \div Base)

BAdd(a, b) == BAddFrom(a, b, 1, 0)

\* a - b for a >= b
RECURSIVE BSubFrom(_, _, _, _)
BSubFrom(a, b, i, borrow) ==
    IF i > Len(a) THEN <<>>
    ELSE LET s == a[i] - BDigit(b, i) - borrow
         IN  IF s < 0 THEN <<s + Base>> \o BSubFrom(a, b, i + 1, 1)
             ELSE <<s>> \o BSubFrom(a, b, i + 1, 0)

BSub(a, b) == BTrim(BSubFrom(a, b, 1, 0))

\* -1, 0, 1 as a < b, a = b, a > b, for numbers of the same length
RECURSIVE BCmpAt(_, _, _)
BCmpAt(a, b, i) ==
    IF i = 0 THEN 0
    ELSE IF a[i] < b[i] THEN -1
    ELSE IF a[i] > b[i] THEN 1
    ELSE BCmpAt(a, b, i - 1)

\* the same for trimmed numbers
BCmp(a, b) ==
    IF Len(a) < Len(b) THEN -1
    ELSE IF Len(a) > Len(b) THEN 1
    ELSE BCmpAt(a, b, Len(a))

\* a * k for 0 <= k <= Base
RECURSIVE BMulSmallFrom(_, _, _, _)
BMulSmallFrom(a, k, i, carry) ==
    IF i > Len(a) THEN IF carry = 0 THEN <<>> ELSE <<carry>>
    ELSE LET p == a[i] * k + carry
         IN  <<p % Base>> \o BMulSmallFrom(a, k, i + 1, p \div Base)

BMulSmall(a, k) == IF k = 0 THEN <<>> ELSE BMulSmallFrom(a, k, 1, 0)

RECURSIVE BZeros(_)
BZeros(n) == IF n = 0 THEN <<>> ELSE <<0>> \o BZeros(n - 1)

\* a * 2^s
BShl(a, s) ==
    IF Len(a) = 0 THEN a
    ELSE BZeros(s \div DigitBits) \o BMulSmall(a, Pow2(s % DigitBits))

\* a * b for two numbers of four digits: the eight digits of the product,
\* column by column (every partial product is split in its two digits).
BMul4(a, b) ==
    LET
        p11 == a[1] * b[1]
        p12 == a[1] * b[2]
        p13 == a[1] * b[3]
        p14 == a[1] * b[4]
        p21 == a[2] * b[1]
        p22 == a[2] * b[2]
        p23 == a[2] * b[3]
        p24 == a[2] * b[4]
        p31 == a[3] * b[1]
        p32 == a[3] * b[2]
        p33 == a[3] * b[3]
        p34 == a[3] * b[4]
        p41 == a[4] * b[1]
        p42 == a[4] * b[2]
        p43 == a[4] * b[3]
        p44 == a[4] * b[4]
        c1 == (p11 % Base)
        c2 == (p12 % Base) + (p11 \div Base) + (p21 % Base) + (c1 \div Base)
        c3 == (p13 % Base) + (p12 \div Base) + (p22 % Base) +
              (p21 \div Base) + (p31 % Base) + (c2 \div Base)
        c4 == (p14 % Base) + (p13 \div Base) + (p23 % Base) +
              (p22 \div Base) + (p32 % Base) + (p31 \div Base) +
              (p41 % Base) + (c3 \div Base)
        c5 == (p14 \div Base) + (p24 % Base) + (p23 \div Base) +
              (p33 % Base) + (p32 \div Base) + (p42 % Base) +
              (p41 \div Base) + (c4 \div Base)
        c6 == (p24 \div Base) + (p34 % Base) + (p33 \div Base) +
              (p43 % Base) + (p42 \div Base) + (c5 \div Base)
        c7 == (p34 \div Base) + (p44 % Base) + (p43 \div Base) +
              (c6 \div Base)
        c8 == (p44 \div Base) + (c7 \div Base)
    IN  <<c1 % Base, c2 % Base, c3 % Base, c4 % Base,
          c5 % Base, c6 % Base, c7 % Base, c8 % Base>>

\* v * q for v of four digits and 0 <= q < Base: five digits
BMul4Small(v, q) ==
    LET t1 == v[1] * q
        t2 == v[2] * q + (t1 \div Base)
        t3 == v[3] * q + (t2 \div Base)
        t4 == v[4] * q + (t3 \div Base)
    IN  <<t1 % Base, t2 % Base, t3 % Base, t4 % Base, t4 \div Base>>

\* u - p for u >= p, both of five digits and the difference of four
BSub5(u, p) ==
    LET s1 == u[1] - p[1]
        s2 == u[2] - p[2] - (IF s1 < 0 THEN 1 ELSE 0)
        s3 == u[3] - p[3] - (IF s2 < 0 THEN 1 ELSE 0)
        s4 == u[4] - p[4] - (IF s3 < 0 THEN 1 ELSE 0)
    IN  <<s1 % Base, s2 % Base, s3 % Base, s4 % Base>>

\* One digit of a long division: the largest q' <= q with v * q' <= u, and
\* the remainder u - v * q' (u of five digits, v of four).
RECURSIVE BDivDigit(_, _, _)
RECURSIVE BDivTry(_, _, _, _)
BDivDigit(u, v, q) == BDivTry(u, v, q, BMul4Small(v, q))

\* the same, given the product p = v * q
BDivTry(u, v, q, p) ==
    IF BCmpAt(p, u, 5) > 0 THEN BDivDigit(u, v, q - 1)
    ELSE <<q, BSub5(u, p)>>

\* The next digit of the quotient of r * Base^k by v, for r < v of four
\* digits and the top digit of v >= Base / 2, and the remainder it leaves.
BDivStep(r, v) ==
    LET est == (r[4] * Base + r[3]) \div v[4]
    IN  BDivDigit(<<0, r[1], r[2], r[3], r[4]>>, v,
                  IF est >= Base THEN Base - 1 ELSE est)

\* The number of bits of a trimmed number.
BitLen(a) ==
    IF Len(a) = 0 THEN 0 ELSE (Len(a) - 1) * DigitBits + DigitLen(a[Len(a)])

\* bit i of a (bit 0 is the lowest)
BBit(a, i) == (BDigit(a, i \div DigitBits + 1) \div Pow2(i % DigitBits)) % 2

\* the 15 bits of a from bit i upwards
BBitsFrom(a, i) ==
    (BDigit(a, i \div DigitBits + 1) \div Pow2(i % DigitBits))
        + (BDigit(a, i \div DigitBits + 2) % Pow2(i % DigitBits))
              * Pow2(DigitBits - (i % DigitBits))

\* a mod 2^k # 0
BLowNonzero(a, k) ==
    \/ \E i \in 1..(k \div DigitBits) : BDigit(a, i) # 0
    \/ BDigit(a, k \div DigitBits + 1) % Pow2(k % DigitBits) # 0

\* The quotient q rounded to the nearest natural, a tie to the even one:
\* half says that the first bit cut off is 1, low that a later one is.
BRoundTie(q, half, low) ==
    IF half /\ (low \/ q[1] % 2 = 1)
    THEN IF q[1] < Base - 1 THEN <<q[1] + 1, q[2], q[3], q[4]>>
         ELSE BAdd(q, <<1>>)
    ELSE q

\* a / 2^s rounded to the nearest natural, a tie to the even one, for a
\* quotient of at most four digits; sticky says that a stands for a value
\* slightly above a.
BShrRound(a, s, sticky) ==
    BRoundTie(<<BBitsFrom(a, s), BBitsFrom(a, s + 15),
                BBitsFrom(a, s + 30), BBitsFrom(a, s + 45)>>,
              s > 0 /\ BBit(a, s - 1) = 1,
              sticky \/ (s > 1 /\ BLowNonzero(a, s - 1)))

(***************************************************************************)
(* Python floats: IEEE 754 binary64 with round-to-nearest-even.  A float   *)
(* is <<sign, m, e>> for the value sign * m * 2^e, m of four digits with   *)
(* 2^52 <= m < 2^53, and <<0, <<>>, 0>> for zero (the sign of a zero is    *)
(* not kept).  Values are taken to stay within the normal range (no        *)
(* overflow, no subnormals).  <<0, 0>> stands for a raised                 *)
(* ZeroDivisionError and is absorbing.                                     *)
(***************************************************************************)
Precision == 53

ZeroDivisionError == <<0, 0>>
Raised(x) == Len(x) = 2
Zero == <<0, <<>>, 0>>

\* The float sign * q * 2^e for q of 53 bits, or q = 2^53 after a rounding
\* that carried.
Normal(sign, q, e) ==
    IF q[4] >= 256 THEN <<sign, <<0, 0, 0, 128>>, e + 1>>
    ELSE <<sign, q, e>>

\* The float nearest to sign * a * 2^e, for a trimmed (slightly above a
\* when sticky).
Nearest(sign, a, e, sticky) ==
    IF Len(a) = 0 THEN Zero
    ELSE Normal(sign,
                BShrRound(<<0, 0, 0, 0>> \o a, BitLen(a) - Precision + 60, sticky),
                e + BitLen(a) - Precision)

\* The float of an integer; those of the small integers are converted once.
IntToFloat(i) == Nearest(IF i < 0 THEN -1 ELSE 1, BFromInt(IAbs(i)), 0, FALSE)
SmallInts == -256..2400
SmallIntFloats == [i \in SmallInts |-> IntToFloat(i)]
R(i) == IF i \in SmallInts THEN SmallIntFloats[i] ELSE IntToFloat(i)

RNeg(x) == IF Raised(x) THEN x ELSE <<-x[1], x[2], x[3]>>

RMul(x, y) ==
    IF Raised(x) \/ Raised(y) THEN ZeroDivisionError
    ELSE IF x[1] = 0 \/ y[1] = 0 THEN Zero
    ELSE Nearest(x[1] * y[1], BTrim(BMul4(x[2], y[2])), x[3] + y[3], FALSE)

\* a div 2^s for a quotient of at most four digits.
BShrTrunc(a, s) ==
    <<BBitsFrom(a, s), BBitsFrom(a, s + 15), BBitsFrom(a, s + 30), BBitsFrom(a, s + 45)>>

\* The positive float next to a * 2^e for a of more than 53 bits, of which s
\* are cut off: the one above when up and a bit cut off is 1, else the one
\* below (a * 2^e itself when no bit cut off is 1).
Neighbour(a, s, e, up) ==
    IF up /\ BLowNonzero(a, s) THEN Normal(1, BAdd(BShrTrunc(a, s), <<1>>), e + s)
    ELSE <<1, BShrTrunc(a, s), e + s>>

NeighbourOf(a, e, up) == Neighbour(a, BitLen(a) - Precision, e, up)

\* x * x is no float: the exact square has more than 53 significant bits.
SquareInexact(x) ==
    /\ ~Raised(x)
    /\ x[1] # 0
    /\ BLowNonzero(BMul4(x[2], x[2]), BitLen(BTrim(BMul4(x[2], x[2]))) - Precision)

\* x ** 2 for a float x, which CPython computes with the C library's
\* pow(x, 2.0).  pow is not correctly rounded: its result is the exact
\* square when that is a float and otherwise one of the two floats next to
\* the exact square, which of them being the library's choice (up says the
\* one above).
float_pow_2(x, up) ==
    IF Raised(x) THEN ZeroDivisionError
    ELSE IF x[1] = 0 THEN Zero
    ELSE NeighbourOf(BTrim(BMul4(x[2], x[2])), 2 * x[3], up)

\* Long division of r * Base^4 by v: <<the four digits of the quotient,
\* the remainder>>, from the step st = <<digit, remainder>> that gave the
\* digit before the digits qs, with n digits to come.
RECURSIVE BLongDivFrom(_, _, _, _)
BLongDivFrom(st, v, qs, n) ==
    IF n = 0 THEN <<<<st[1]>> \o qs, st[2]>>
    ELSE BLongDivFrom(BDivStep(st[2], v), v, <<st[1]>> \o qs, n - 1)

BLongDiv(r, v) == BLongDivFrom(BDivStep(r, v), v, <<>>, 3)

\* The float nearest to sign * d[1] * 2^e, d = <<quotient, remainder>>.
RDivRound(sign, d, e) == Nearest(sign, d[1], e, d[2] # <<0, 0, 0, 0>>)

\* x / y: the quotient of the mantissas to 55 or 56 bits by long division,
\* then rounded.
RDiv(x, y) ==
    IF Raised(x) \/ Raised(y) THEN ZeroDivisionError
    ELSE IF y[1] = 0 THEN ZeroDivisionError
    ELSE IF x[1] = 0 THEN Zero
    ELSE RDivRound(x[1] * y[1],
                   BLongDiv(BMul4Small(x[2], 4), BMul4Small(y[2], 128)),
                   x[3] - y[3] - 55)

\* -1, 0, 1 as |x| < |y|, |x| = |y|, |x| > |y|
RCmpAbs(x, y) ==
    IF x[1] = 0 THEN (IF y[1] = 0 THEN 0 ELSE -1)
    ELSE IF y[1] = 0 THEN 1
    ELSE IF x[3] < y[3] THEN -1
    ELSE IF x[3] > y[3] THEN 1
    ELSE BCmpAt(x[2], y[2], 4)

\* -1, 0, 1 as x < y, x = y, x > y
RCmp(x, y) ==
    IF x[1] < y[1] THEN -1
    ELSE IF x[1] > y[1] THEN 1
    ELSE x[1] * RCmpAbs(x, y)

\* sx * a + sy * b as <<sign, magnitude>>, for signs sx, sy and naturals
\* a, b, c = BCmp(a, b).
BAddSigned(sx, a, sy, b, c) ==
    IF sx = sy THEN <<sx, BAdd(a, b)>>
    ELSE IF c >= 0 THEN <<sx, BSub(a, b)>>
    ELSE <<sy, BSub(b, a)>>

\* The float nearest to sm[1] * sm[2] * 2^e, sm = <<sign, magnitude>>.
RAddRound(sm, e) == Nearest(sm[1], sm[2], e, FALSE)

\* x + y with both mantissas brought to the exponent e.
RAddAligned(sx, a, sy, b, e) == RAddRound(BAddSigned(sx, a, sy, b, BCmp(a, b)), e)
RAddAt(x, y, e) ==
    RAddAligned(x[1], BShl(x[2], x[3] - e), y[1], BShl(y[2], y[3] - e), e)

RAdd(x, y) ==
    IF Raised(x) \/ Raised(y) THEN ZeroDivisionError
    ELSE IF x[1] = 0 THEN y
    ELSE IF y[1] = 0 THEN x
    ELSE RAddAt(x, y, IF x[3] < y[3] THEN x[3] ELSE y[3])

RSub(x, y) == RAdd(x, RNeg(y))

RLt(x, y) == RCmp(x, y) < 0
RLe(x, y) == RCmp(x, y) <= 0
RGt(x, y) == RCmp(x, y) > 0
RGe(x, y) == RCmp(x, y) >= 0
RAbs(x) == IF Raised(x) THEN x ELSE <<IAbs(x[1]), x[2], x[3]>>
RMin(x, y) == IF RLt(y, x) THEN y ELSE x

\* The float of the decimal literal n/d (d a power of ten), and the
\* quotient of two integers; the literals of the source are converted once.
Literals ==
    {<<99, 100>>, <<95, 100>>, <<90, 100>>, <<60, 100>>, <<1645, 1000>>,
     <<2326, 1000>>, <<399, 10>>, <<1, 1000>>, <<1, 200>>, <<1, 1000000000>>}
LiteralFloats == [p \in Literals |-> RDiv(R(p[1]), R(p[2]))]
Rat(n, d) == IF <<n, d>> \in Literals THEN LiteralFloats[<<n, d>>] ELSE RDiv(R(n), R(d))

\* a / 2^s rounded to the nearest natural, a tie to the even one (0 when
\* a / 2^s is below a quarter).
RoundedUnits(a, s) ==
    IF s > BitLen(a) + 1 THEN <<>> ELSE BTrim(BShrRound(a, s, FALSE))

\* Python round(x, ndigits) for 0 <= ndigits <= 4 and |x| * 10^ndigits
\* below 2^53: the decimal with ndigits places nearest to the float's exact
\* value (a tie to the even one), and the float nearest to that decimal.
Round(x, ndigits) ==
    IF Raised(x) THEN x
    ELSE IF x[1] = 0 \/ x[3] >= 0 THEN x
    ELSE RDiv(Nearest(x[1], RoundedUnits(BMulSmall(x[2], Pow10(ndigits)), -x[3]),
                      0, FALSE),
              R(Pow10(ndigits)))

(***************************************************************************)
(* Inputs.  The coin ids are those of api_handler.SUPPORTED_COINS.  The    *)
(* dashboard's portfolio is what update_holdings saves from transactions   *)
(* the form accepted (one holding per coin id, its amount > 0 and its      *)
(* total_cost > 0), and its price map is what get_multiple_prices returns  *)
(* for the portfolio's ids: a quote for some of them, none for the others. *)
(* The engine's functions are also called on their own, with arguments of  *)
(* the caller's choosing.                                                  *)
(***************************************************************************)
CoinList == <<"bitcoin", "ethereum", "cardano", "solana">>

CoinName(id) ==
    CASE id = "bitcoin" -> "Bitcoin"
      [] id = "ethereum" -> "Ethereum"
      [] id = "cardano" -> "Cardano"
      [] OTHER -> "Solana"

\* What the dashboard loads for one coin: <<amount, total_cost, quote>>, the
\* saved holding and the coin's <<price, change_24h>>, or NoQuote when the
\* price source omits the id.
NoQuote == <<>>
InputSamples ==
    {<<1, 5, <<R(4), R(-6)>>>>,
     <<1, 5, NoQuote>>,
     <<2, 3, <<R(0), R(9)>>>>,
     <<2, 24, <<R(12), R(-12)>>>>,
     <<2, 6, <<R(12), R(18)>>>>,
     <<2, 100, <<R(40), R(0)>>>>}

\* Prices that are no short decimal, as floats <<sign, digits, exponent>>:
\* 1.4318564576337836 and 0.5681435423662164; 0.8486848450579078,
\* 0.044412078770217245 and 0.106903076171875.
Price1 == <<1, <<10234, 8771, 9097, 183>>, -52>>
Price2 == <<1, <<12300, 15225, 14573, 145>>, -53>>
Price3 == <<1, <<20009, 15752, 8628, 217>>, -53>>
Price4 == <<1, <<7536, 10102, 29880, 181>>, -57>>
Price5 == <<1, <<0, 0, 30720, 218>>, -56>>

\* Portfolios with their quotes on which the rounding of the floats decides:
\* values 2.7 and 1.8 (a share computed as 60.00000000000001%) and 3 and 2
\* (a share of 60.0%), values 0.6, 0.3 and 0.1, a weighted change of 4.4925
\* (score 29.9), of 4.3125 (score 28.7) and of 0.0075 (score 0.1), values 3
\* and 37 (diversification score 27.7), a value at risk of 1.645, a price
\* of 0.4, and two on which the rounding of pow decides: values Price1 and
\* Price2 (score 81.3 or 81.4) and values Price3, Price4 and Price5 (score
\* 39.9 or 40.0).
BoundaryPortfolios ==
    {<< <<1, 1, <<Rat(27, 10), R(1)>>>>, <<1, 1, <<Rat(18, 10), R(-1)>>>> >>,
     << <<1, 1, <<R(3), R(1)>>>>, <<1, 1, <<R(2), R(-1)>>>> >>,
     << <<1, 1, <<Rat(6, 10), R(1)>>>>, <<1, 1, <<Rat(3, 10), R(1)>>>>,
        <<1, 1, <<Rat(1, 10), R(-1)>>>> >>,
     << <<599, 1, <<R(1), R(6)>>>>, <<201, 1, <<R(1), R(0)>>>> >>,
     << <<1, 1, <<R(1), R(9)>>>>, <<15, 1, <<R(1), R(-4)>>>> >>,
     << <<3, 1, <<R(1), R(1)>>>>, <<397, 1, <<R(1), R(0)>>>> >>,
     << <<3, 1, <<R(1), R(1)>>>>, <<37, 1, <<R(1), R(-1)>>>> >>,
     << <<100, 1, <<R(1), R(1)>>>> >>,
     << <<25, 7, <<Rat(4, 10), R(10)>>>>, <<1, 5, <<R(4), R(-6)>>>> >>,
     << <<1, 1, <<Price1, R(1)>>>>, <<1, 1, <<Price2, R(-1)>>>> >>,
     << <<1, 1, <<Price3, R(1)>>>>, <<1, 1, <<Price4, R(1)>>>>,
        <<1, 1, <<Price5, R(-1)>>>> >>}

\* Arguments of calculate_portfolio_value in a call that is not the
\* dashboard's: the empty portfolio, and holdings of total_cost 0 (the
\* default of holding.get('total_cost', 0)), with a value or without.
CallSamples ==
    {<< >>,
     << <<2, 0, <<R(12), R(18)>>>>, <<1, 5, <<R(4), R(-6)>>>> >>,
     << <<2, 0, <<R(0), R(9)>>>> >>,
     << <<2, 0, <<R(0), R(9)>>>>, <<1, 5, NoQuote>>, <<2, 0, <<R(0), R(9)>>>> >>,
     << <<1, 5, <<R(4), R(-6)>>>>, <<2, 0, <<R(0), R(9)>>>> >>}

\* What get_crypto_price('bitcoin') returns to the dashboard's benchmark:
\* <<price, change_24h>>, or NoQuote for (None, None).
BenchmarkSamples == {NoQuote, <<R(4), R(-6)>>, <<R(4), R(0)>>}

\* calculate_var's confidence: the parameter's default, and values passed
\* explicitly.
DefaultConfidence == Rat(95, 100)
ConfidenceSamples == {Rat(90, 100), Rat(99, 100)}

\* <<portfolio_risk_score, div_score>> passed to get_recommendations by a
\* caller other than the dashboard.
ScoreSamples == {<<R(100), Rat(399, 10)>>, <<R(0), R(40)>>}

\* The id of the i-th holding: the ledger's coins first appear in CoinList
\* order.
IdAt(i) == CoinList[i]

MakeHolding(id, hs) ==
    [name |-> CoinName(id), id |-> id, amount |-> R(hs[1]),
     total_cost |-> R(hs[2]), avg_cost_basis |-> Rat(hs[2], hs[1])]

MakePrices(qs) ==
    [id \in {IdAt(i) : i \in {j \in DOMAIN qs : qs[j][3] # NoQuote}} |->
        LET i == CHOOSE j \in DOMAIN qs : IdAt(j) = id
        IN  [price |-> qs[i][3][1], change_24h |-> qs[i][3][2]]]

(***************************************************************************)
(* portfolio.calculate_portfolio_value                                     *)
(***************************************************************************)
\* valuation_record without the zero guard on the cost basis.
valuation_record_unguarded(holding, quote) ==
    LET current_value == RMul(holding.amount, quote.price)
        profit_loss == RSub(current_value, holding.total_cost)
    IN  [name |-> holding.name, id |-> holding.id, amount |-> holding.amount,
         current_price |-> quote.price, current_value |-> current_value,
         cost_basis |-> holding.total_cost, avg_cost |-> holding.avg_cost_basis,
         profit_loss |-> profit_loss,
         profit_loss_pct |-> RMul(RDiv(profit_loss, holding.total_cost), R(100)),
         change_24h |-> quote.change_24h]

\* One record of results (the dict appended in the loop body).
valuation_record(holding, quote) ==
    LET current_price == quote.price
        change_24h == quote.change_24h
        current_value == RMul(holding.amount, current_price)
        cost_basis == holding.total_cost
        profit_loss == RSub(current_value, cost_basis)
        profit_loss_pct ==
            IF RGt(cost_basis, R(0))
            THEN RMul(RDiv(profit_loss, cost_basis), R(100))
            ELSE R(0)
    IN  [name |-> holding.name, id |-> holding.id, amount |-> holding.amount,
         current_price |-> current_price, current_value |-> current_value,
         cost_basis |-> cost_basis, avg_cost |-> holding.avg_cost_basis,
         profit_loss |-> profit_loss, profit_loss_pct |-> profit_loss_pct,
         change_24h |-> change_24h]

\* cpv_loop with total_cost accumulated outside the "if coin_id in
\* current_prices" block: an unquoted holding still adds its cost.
RECURSIVE cpv_loop_cost_of_all(_, _, _, _)
cpv_loop_cost_of_all(pf, prices, i, acc) ==
    IF i > Len(pf) THEN acc
    ELSE IF pf[i].id \in DOMAIN prices
    THEN LET rec == valuation_record(pf[i], prices[pf[i].id])
         IN  cpv_loop_cost_of_all(pf, prices, i + 1,
                 [results |-> Append(acc.results, rec),
                  total_value |-> RAdd(acc.total_value, rec.current_value),
                  total_cost |-> RAdd(acc.total_cost, rec.cost_basis)])
    ELSE cpv_loop_cost_of_all(pf, prices, i + 1,
             [acc EXCEPT !.total_cost = RAdd(acc.total_cost, pf[i].total_cost)])

\* The for loop from holding i on, acc = [results, total_value, total_cost].
RECURSIVE cpv_loop(_, _, _, _)
cpv_loop(pf, prices, i, acc) ==
    IF i > Len(pf) THEN acc
    ELSE IF pf[i].id \in DOMAIN prices
    THEN LET rec == valuation_record(pf[i], prices[pf[i].id])
         IN  cpv_loop(pf, prices, i + 1,
                 [results |-> Append(acc.results, rec),
                  total_value |-> RAdd(acc.total_value, rec.current_value),
                  total_cost |-> RAdd(acc.total_cost, rec.cost_basis)])
    ELSE cpv_loop(pf, prices, i + 1, acc)

\* After the loop: total_pl, total_pl_pct and the values returned, from the
\* results and totals acc the loop has accumulated.
cpv_return(acc) ==
    LET total_pl == RSub(acc.total_value, acc.total_cost)
        total_pl_pct ==
            IF RGt(acc.total_cost, R(0))
            THEN RMul(RDiv(total_pl, acc.total_cost), R(100))
            ELSE R(0)
    IN  [results |-> acc.results, total_value |-> acc.total_value,
         total_cost |-> acc.total_cost, total_pl |-> total_pl,
         total_pl_pct |-> total_pl_pct]

calculate_portfolio_value(pf, prices) ==
    cpv_return(cpv_loop(pf, prices, 1,
                   [results |-> <<>>, total_value |-> R(0), total_cost |-> R(0)]))

(***************************************************************************)
(* risk_analysis.py                                                        *)
(***************************************************************************)
\* calculate_risk_level with "<= 7" for Medium.
calculate_risk_level_le_7(volatility) ==
    LET abs_vol == RAbs(volatility)
    IN  IF RLt(abs_vol, R(3)) THEN <<"Low Risk", "green">>
        ELSE IF RLe(abs_vol, R(7)) THEN <<"Medium Risk", "orange">>
        ELSE <<"High Risk", "red">>

\* The labels carry a leading emoji in the source; the model keeps the words.
calculate_risk_level(volatility) ==
    LET abs_vol == RAbs(volatility)
    IN  IF RLt(abs_vol, R(3)) THEN <<"Low Risk", "green">>
        ELSE IF RLt(abs_vol, R(7)) THEN <<"Medium Risk", "orange">>
        ELSE <<"High Risk", "red">>

\* calculate_risk_score saturating at a 10% move instead of 15%.
calculate_risk_score_per_10(volatility) ==
    Round(RMin(RMul(RDiv(RAbs(volatility), R(10)), R(100)), R(100)), 1)

\* calculate_risk_score without the cap at 100.
calculate_risk_score_uncapped(volatility) ==
    Round(RMul(RDiv(RAbs(volatility), R(15)), R(100)), 1)

calculate_risk_score(volatility) ==
    LET abs_vol == RAbs(volatility)
        score == RMin(RMul(RDiv(abs_vol, R(15)), R(100)), R(100))
    IN  Round(score, 1)

\* sum(h['current_value'] for h in holdings_data), from holding i on.
RECURSIVE sum_current_value(_, _, _)
sum_current_value(hd, i, acc) ==
    IF i > Len(hd) THEN acc
    ELSE sum_current_value(hd, i + 1, RAdd(acc, hd[i].current_value))

\* weighted_volatility_loop with the weight taken from the cost basis.
RECURSIVE weighted_volatility_loop_by_cost(_, _, _, _)
weighted_volatility_loop_by_cost(hd, total_value, i, acc) ==
    IF i > Len(hd) THEN acc
    ELSE LET weight == RDiv(hd[i].cost_basis, total_value)
             coin_volatility == RAbs(hd[i].change_24h)
         IN  weighted_volatility_loop_by_cost(hd, total_value, i + 1,
                 RAdd(acc, RMul(weight, coin_volatility)))

\* The loop of calculate_portfolio_risk: weighted_volatility += weight * coin_volatility.
RECURSIVE weighted_volatility_loop(_, _, _, _)
weighted_volatility_loop(hd, total_value, i, acc) ==
    IF i > Len(hd) THEN acc
    ELSE LET weight == RDiv(hd[i].current_value, total_value)
             coin_volatility == RAbs(hd[i].change_24h)
         IN  weighted_volatility_loop(hd, total_value, i + 1,
                 RAdd(acc, RMul(weight, coin_volatility)))

\* The if/elif/else on risk_score of calculate_portfolio_risk.
portfolio_risk_label(risk_score) ==
    IF RLt(risk_score, R(30)) THEN <<"Low Risk", "green">>
    ELSE IF RLt(risk_score, R(60)) THEN <<"Medium Risk", "orange">>
    ELSE <<"High Risk", "red">>

\* calculate_portfolio_risk without the "if total_value == 0" guard.
calculate_portfolio_risk_unguarded(hd) ==
    IF Len(hd) = 0 THEN <<R(0), "N/A", "gray">>
    ELSE LET total_value == sum_current_value(hd, 1, R(0))
             weighted_volatility ==
                 weighted_volatility_loop(hd, total_value, 1, R(0))
             risk_score ==
                 Round(RMin(RMul(RDiv(weighted_volatility, R(15)), R(100)),
                            R(100)), 1)
             lab == portfolio_risk_label(risk_score)
         IN  <<risk_score, lab[1], lab[2]>>

\* Returns <<risk_score, risk_label, risk_color>>.
calculate_portfolio_risk(hd) ==
    IF Len(hd) = 0 THEN <<R(0), "N/A", "gray">>
    ELSE LET total_value == sum_current_value(hd, 1, R(0))
         IN  IF total_value = R(0) THEN <<R(0), "N/A", "gray">>
             ELSE LET weighted_volatility ==
                          weighted_volatility_loop(hd, total_value, 1, R(0))
                      risk_score ==
                          Round(RMin(RMul(RDiv(weighted_volatility, R(15)), R(100)),
                                     R(100)), 1)
                      lab == portfolio_risk_label(risk_score)
                  IN  <<risk_score, lab[1], lab[2]>>

\* z_score_for with "confidence > 0.99".
z_score_for_above_99(confidence) ==
    IF RGt(confidence, Rat(99, 100)) THEN Rat(2326, 1000) ELSE Rat(1645, 1000)

\* z_score of calculate_var.
z_score_for(confidence) ==
    IF RGe(confidence, Rat(99, 100)) THEN Rat(2326, 1000) ELSE Rat(1645, 1000)

\* weighted_vol_loop with the value itself as the weight (not divided by
\* total_value).
RECURSIVE weighted_vol_loop_unweighted(_, _, _, _)
weighted_vol_loop_unweighted(hd, total_value, i, acc) ==
    IF i > Len(hd) THEN acc
    ELSE LET weight == hd[i].current_value
             daily_vol == RDiv(RAbs(hd[i].change_24h), R(100))
         IN  weighted_vol_loop_unweighted(hd, total_value, i + 1,
                 RAdd(acc, RMul(weight, daily_vol)))

\* The loop of calculate_var: weighted_vol += weight * daily_vol.
RECURSIVE weighted_vol_loop(_, _, _, _)
weighted_vol_loop(hd, total_value, i, acc) ==
    IF i > Len(hd) THEN acc
    ELSE LET weight == RDiv(hd[i].current_value, total_value)
             daily_vol == RDiv(RAbs(hd[i].change_24h), R(100))
         IN  weighted_vol_loop(hd, total_value, i + 1,
                 RAdd(acc, RMul(weight, daily_vol)))

calculate_var(hd, confidence) ==
    IF Len(hd) = 0 THEN R(0)
    ELSE LET total_value == sum_current_value(hd, 1, R(0))
         IN  IF total_value = R(0) THEN R(0)
             ELSE LET z_score == z_score_for(confidence)
                      weighted_vol == weighted_vol_loop(hd, total_value, 1, R(0))
                      var_amount == RMul(RMul(total_value, z_score), weighted_vol)
                  IN  Round(var_amount, 2)

\* hhi_loop adding the weight instead of its square.
RECURSIVE hhi_loop_unsquared(_, _, _, _, _)
hhi_loop_unsquared(hd, total_value, i, acc, ups) ==
    IF i > Len(hd) THEN acc
    ELSE LET weight == RDiv(hd[i].current_value, total_value)
         IN  hhi_loop_unsquared(hd, total_value, i + 1, RAdd(acc, weight), ups)

\* The loop of get_diversification_score: hhi += weight ** 2.  ups is the
\* set of the weights whose square the C library's pow rounds up; it rounds
\* down the square of every other weight.
RECURSIVE hhi_loop(_, _, _, _, _)
hhi_loop(hd, total_value, i, acc, ups) ==
    IF i > Len(hd) THEN acc
    ELSE LET weight == RDiv(hd[i].current_value, total_value)
         IN  hhi_loop(hd, total_value, i + 1,
                      RAdd(acc, float_pow_2(weight, weight \in ups)), ups)

\* The if/elif/else on div_score of get_diversification_score.
diversification_recommendation(div_score) ==
    IF RGe(div_score, R(70)) THEN "Good diversification"
    ELSE IF RGe(div_score, R(40)) THEN "Moderate - consider adding more assets"
    ELSE "Low - portfolio is too concentrated"

\* div_score_of without the rescaling by min_hhi: (1 - hhi) * 100.
div_score_of_unscaled(hd, total_value, ups) ==
    LET div_score == Round(RMul(RSub(R(1), hhi_loop(hd, total_value, 1, R(0), ups)),
                                R(100)), 1)
    IN  <<div_score, diversification_recommendation(div_score)>>

\* get_diversification_score from "Calculate HHI" on: the score of two or
\* more holdings of total value total_value # 0, and its recommendation.
div_score_of(hd, total_value, ups) ==
    LET hhi == hhi_loop(hd, total_value, 1, R(0), ups)
        n == Len(hd)
        min_hhi == RDiv(R(1), R(n))
        max_hhi == R(1)
        raw == IF max_hhi = min_hhi THEN R(100)
               ELSE RMul(RSub(R(1), RDiv(RSub(hhi, min_hhi),
                                         RSub(max_hhi, min_hhi))),
                         R(100))
        div_score == Round(raw, 1)
    IN  <<div_score, diversification_recommendation(div_score)>>

\* get_diversification_score with the total-value test before the
\* single-holding test.
get_diversification_score_value_first(hd, ups) ==
    IF Len(hd) = 0 THEN <<R(0), "No holdings">>
    ELSE LET total_value == sum_current_value(hd, 1, R(0))
         IN  IF total_value = R(0) THEN <<R(0), "No value">>
             ELSE IF Len(hd) = 1 THEN <<R(10), "Very Low - Only 1 asset">>
             ELSE div_score_of(hd, total_value, ups)

\* Returns <<div_score, recommendation>>, for the C library whose pow rounds
\* up the squares of the weights in ups.
get_diversification_score(hd, ups) ==
    IF Len(hd) = 0 THEN <<R(0), "No holdings">>
    ELSE IF Len(hd) = 1 THEN <<R(10), "Very Low - Only 1 asset">>
    ELSE LET total_value == sum_current_value(hd, 1, R(0))
         IN  IF total_value = R(0) THEN <<R(0), "No value">>
             ELSE div_score_of(hd, total_value, ups)

\* The weights get_diversification_score squares on hd whose square is no
\* float: those on which the C library's pow has a choice.
InexactWeights(hd) ==
    IF Len(hd) < 2 THEN {}
    ELSE LET total_value == sum_current_value(hd, 1, R(0))
         IN  IF total_value = R(0) THEN {}
             ELSE {w \in {RDiv(hd[i].current_value, total_value) : i \in DOMAIN hd} :
                      SquareInexact(w)}

\* What the C library's pow may do on the weights of hd: each set of weights
\* whose squares it rounds up.
PowChoices(hd) == SUBSET InexactWeights(hd)

(***************************************************************************)
(* risk_analysis.get_recommendations.  A message is a record: text names   *)
(* the source's string, and the rebalancing message carries the holding's  *)
(* name and the share it prints ("{pct:.0f}").                             *)
(***************************************************************************)
Msg(text) == [text |-> text, name |-> "", pct |-> R(0)]

StartAdding == Msg("Start by adding some cryptocurrencies to your portfolio")
HighRisk == Msg("Your portfolio has high risk")
ModerateRisk == Msg("Moderate risk level")
LowRisk == Msg("Low risk level")
AddMore == Msg("Consider adding more assets")
Rebalance(name, pct) ==
    [text |-> "makes up pct% of your portfolio. Consider rebalancing.",
     name |-> name, pct |-> Round(pct, 0)]
ReviewStrategy == Msg("Most of your assets are currently at a loss")

\* risk_recommendation with ">= 70" for the high-risk warning.
risk_recommendation_ge_70(portfolio_risk_score) ==
    IF RGe(portfolio_risk_score, R(70)) THEN HighRisk
    ELSE IF RGt(portfolio_risk_score, R(40)) THEN ModerateRisk
    ELSE LowRisk

\* The if/elif/else on portfolio_risk_score.
risk_recommendation(portfolio_risk_score) ==
    IF RGt(portfolio_risk_score, R(70)) THEN HighRisk
    ELSE IF RGt(portfolio_risk_score, R(40)) THEN ModerateRisk
    ELSE LowRisk

\* rebalance_loop with the share threshold at 70% instead of 60%.
RECURSIVE rebalance_loop_above_70(_, _, _, _)
rebalance_loop_above_70(hd, total_value, i, recs) ==
    IF i > Len(hd) THEN recs
    ELSE LET pct == IF RGt(total_value, R(0))
                    THEN RMul(RDiv(hd[i].current_value, total_value), R(100))
                    ELSE R(0)
         IN  rebalance_loop_above_70(hd, total_value, i + 1,
                 IF RGt(pct, R(70)) THEN Append(recs, Rebalance(hd[i].name, pct))
                 ELSE recs)

\* The loop over the holdings under "if div_score < 40".
RECURSIVE rebalance_loop(_, _, _, _)
rebalance_loop(hd, total_value, i, recs) ==
    IF i > Len(hd) THEN recs
    ELSE LET pct == IF RGt(total_value, R(0))
                    THEN RMul(RDiv(hd[i].current_value, total_value), R(100))
                    ELSE R(0)
         IN  rebalance_loop(hd, total_value, i + 1,
                 IF RGt(pct, R(60)) THEN Append(recs, Rebalance(hd[i].name, pct))
                 ELSE recs)

\* losing_count that also counts a holding with profit/loss 0.
losing_count_or_flat(hd) ==
    Cardinality({i \in DOMAIN hd : RLe(hd[i].profit_loss, R(0))})

\* len(losing_coins).
losing_count(hd) == Cardinality({i \in DOMAIN hd : RLt(hd[i].profit_loss, R(0))})

\* get_recommendations with the performance rule moved up, before the
\* two diversification rules.
get_recommendations_review_early(hd, portfolio_risk_score, div_score) ==
    IF Len(hd) = 0 THEN <<StartAdding>>
    ELSE LET r1 == <<risk_recommendation(portfolio_risk_score)>>
             r2 == IF 2 * losing_count(hd) > Len(hd)
                   THEN Append(r1, ReviewStrategy)
                   ELSE r1
             r3 == IF Len(hd) < 3 THEN Append(r2, AddMore) ELSE r2
         IN  IF RLt(div_score, R(40))
             THEN rebalance_loop(hd, sum_current_value(hd, 1, R(0)), 1, r3)
             ELSE r3

\* get_recommendations without the early return of the empty-list rule: the
\* other rules still run.
get_recommendations_no_return(hd, portfolio_risk_score, div_score) ==
    LET r0 == IF Len(hd) = 0 THEN <<StartAdding>> ELSE <<>>
        r1 == Append(r0, risk_recommendation(portfolio_risk_score))
        r2 == IF Len(hd) < 3 THEN Append(r1, AddMore) ELSE r1
        r3 == IF RLt(div_score, R(40))
              THEN rebalance_loop(hd, sum_current_value(hd, 1, R(0)), 1, r2)
              ELSE r2
    IN  IF 2 * losing_count(hd) > Len(hd)
        THEN Append(r3, ReviewStrategy)
        ELSE r3

get_recommendations(hd, portfolio_risk_score, div_score) ==
    IF Len(hd) = 0 THEN <<StartAdding>>
    ELSE LET r1 == <<risk_recommendation(portfolio_risk_score)>>
             r2 == IF Len(hd) < 3 THEN Append(r1, AddMore) ELSE r1
             r3 == IF RLt(div_score, R(40))
                   THEN rebalance_loop(hd, sum_current_value(hd, 1, R(0)), 1, r2)
                   ELSE r2
         IN  IF 2 * losing_count(hd) > Len(hd)
             THEN Append(r3, ReviewStrategy)
             ELSE r3

(***************************************************************************)
(* portfolio.py, the ledger: add_transaction, delete_transaction and       *)
(* update_holdings.  A transaction is the dict add_transaction builds,     *)
(* without its date; holdings is the dict of update_holdings, kept as the  *)
(* sequence of its values in insertion order.                              *)
(***************************************************************************)
\* The coins the transaction form is used with here.
LedgerCoins == {"bitcoin", "ethereum"}

\* <<transaction_type, amount, price>> submitted in the form.  A price of 0
\* is what the form gets when the price could not be fetched.
TxnSamples == {<<"buy", 1, 3>>, <<"buy", 2, 1>>, <<"sell", 1, 1>>, <<"buy", 1, 0>>}

\* holdings[coin_id] = {...}: the entry of a coin first seen.
new_holding(txn) ==
    [name |-> txn.coin_name, id |-> txn.coin_id, total_amount |-> R(0),
     total_cost |-> R(0), buy_count |-> 0, sell_count |-> 0]

\* apply_sell with the average cost taken over the amount left after the
\* sell (the divisor without "+ txn['amount']").
apply_sell_avg_of_rest(h, txn) ==
    LET total_amount == RSub(h.total_amount, txn.amount)
        total_cost ==
            IF RGt(total_amount, R(0))
            THEN LET avg_cost == RDiv(h.total_cost, total_amount)
                 IN  RSub(h.total_cost, RMul(avg_cost, txn.amount))
            ELSE R(0)
    IN  [h EXCEPT !.total_amount = total_amount, !.total_cost = total_cost,
                  !.sell_count = @ + 1]

\* The "elif txn['type'] == 'sell'" branch on the coin's entry h.
apply_sell(h, txn) ==
    LET total_amount == RSub(h.total_amount, txn.amount)
        total_cost ==
            IF RGt(total_amount, R(0))
            THEN LET avg_cost == RDiv(h.total_cost, RAdd(total_amount, txn.amount))
                 IN  RSub(h.total_cost, RMul(avg_cost, txn.amount))
            ELSE R(0)
    IN  [h EXCEPT !.total_amount = total_amount, !.total_cost = total_cost,
                  !.sell_count = @ + 1]

\* The "if txn['type'] == 'buy'" branch on the coin's entry h.
apply_buy(h, txn) ==
    [h EXCEPT !.total_amount = RAdd(@, txn.amount),
              !.total_cost = RAdd(@, txn.total_cost),
              !.buy_count = @ + 1]

\* The body of "for txn in transactions".
apply_txn(holdings, txn) ==
    LET known == \E i \in DOMAIN holdings : holdings[i].id = txn.coin_id
        hs == IF known THEN holdings ELSE Append(holdings, new_holding(txn))
        i == CHOOSE j \in DOMAIN hs : hs[j].id = txn.coin_id
    IN  IF txn.type = "buy" THEN [hs EXCEPT ![i] = apply_buy(hs[i], txn)]
        ELSE IF txn.type = "sell" THEN [hs EXCEPT ![i] = apply_sell(hs[i], txn)]
        ELSE hs

\* holdings after the first n transactions.
RECURSIVE holdings_after(_, _)
holdings_after(transactions, n) ==
    IF n = 0 THEN <<>>
    ELSE apply_txn(holdings_after(transactions, n - 1), transactions[n])

\* portfolio_from that keeps the coins of amount 0 as well (">= 0").
RECURSIVE portfolio_from_nonneg(_, _, _)
portfolio_from_nonneg(holdings, i, pf) ==
    IF i > Len(holdings) THEN pf
    ELSE portfolio_from_nonneg(holdings, i + 1,
             IF RGe(holdings[i].total_amount, R(0))
             THEN Append(pf,
                      [name |-> holdings[i].name, id |-> holdings[i].id,
                       amount |-> holdings[i].total_amount,
                       total_cost |-> holdings[i].total_cost,
                       avg_cost_basis |->
                           IF RGt(holdings[i].total_amount, R(0))
                           THEN RDiv(holdings[i].total_cost, holdings[i].total_amount)
                           ELSE R(0)])
             ELSE pf)

\* "Convert to list and remove coins with 0 or negative amounts", from
\* entry i on.
RECURSIVE portfolio_from(_, _, _)
portfolio_from(holdings, i, pf) ==
    IF i > Len(holdings) THEN pf
    ELSE portfolio_from(holdings, i + 1,
             IF RGt(holdings[i].total_amount, R(0))
             THEN Append(pf,
                      [name |-> holdings[i].name, id |-> holdings[i].id,
                       amount |-> holdings[i].total_amount,
                       total_cost |-> holdings[i].total_cost,
                       avg_cost_basis |->
                           IF RGt(holdings[i].total_amount, R(0))
                           THEN RDiv(holdings[i].total_cost, holdings[i].total_amount)
                           ELSE R(0)])
             ELSE pf)

\* The portfolio update_holdings saves and returns.
update_holdings(transactions) ==
    portfolio_from(holdings_after(transactions, Len(transactions)), 1, <<>>)

\* The ledger add_transaction saves.
add_transaction(transactions, coin_name, coin_id, amount, price_per_coin, transaction_type) ==
    Append(transactions,
           [id |-> Len(transactions) + 1, coin_name |-> coin_name,
            coin_id |-> coin_id, amount |-> amount,
            price_per_coin |-> price_per_coin,
            total_cost |-> RMul(amount, price_per_coin),
            type |-> transaction_type])

\* transactions = [t for t in transactions if t['id'] != transaction_id]
RECURSIVE delete_transaction(_, _)
delete_transaction(transactions, transaction_id) ==
    IF Len(transactions) = 0 THEN <<>>
    ELSE LET rest == delete_transaction(
                         SubSeq(transactions, 1, Len(transactions) - 1),
                         transaction_id)
             last == transactions[Len(transactions)]
         IN  IF last.id # transaction_id THEN Append(rest, last) ELSE rest

(***************************************************************************)
(* The dashboard script (app.py): with a portfolio loaded that is not      *)
(* empty and its prices fetched, it values the portfolio, then computes    *)
(* the risk score, the VaR, the diversification score and the              *)
(* recommendations, in that order, compares the portfolio with Bitcoin and *)
(* renders the per-asset risk table.  A caller of the functions on their   *)
(* own runs the same five calls on arguments of its choosing.              *)
(***************************************************************************)
VARIABLES pc, portfolio, current_prices, valuation, risk, confidence,
          var_amount, diversification, rec_args, recommendations, risk_table

\* What the second of two calls of one function in a row returned, with the
\* function's name.
VARIABLES second_call

\* Who calls the engine: "dashboard" for the script of app.py, "call" for a
\* caller of the functions on their own.
VARIABLES caller

\* One asset's 24h change and its risk score and level (the per-asset
\* functions called on their own).
VARIABLES volatility, asset_risk

asset_vars == <<volatility, asset_risk>>

\* The user's saved ledger (data/<username>_transactions.json); portfolio is
\* the user's saved portfolio (data/<username>_portfolio.json).
VARIABLES transactions

ledger_vars == <<transactions>>

\* The sessions of the user: for each its position in the handler it runs,
\* the handler's arguments and its local transactions list.
VARIABLES sessions

session_vars == <<sessions>>

\* The user store (users.json); for each session on the login / signup page
\* the call of auth.py it makes: its position in the call, the arguments,
\* the store as load_users returned it, the local dict and what the call
\* returned; the accounts (username and password) that exist at the start
\* or that create_account has returned True for.
VARIABLES users, auth_calls, accounts

auth_vars == <<users, auth_calls, accounts>>

vars == <<pc, caller, portfolio, current_prices, valuation, risk, confidence,
          var_amount, diversification, rec_args, recommendations, risk_table,
          second_call,
          asset_vars, ledger_vars, session_vars, auth_vars>>

None == "None"

\* The portfolio and the price map the engine starts from.
Loaded(qs) ==
    /\ portfolio = [i \in DOMAIN qs |-> MakeHolding(IdAt(i), qs[i])]
    /\ current_prices = MakePrices(qs)

\* app.py: portfolio = load_portfolio(username), the else branch of
\* "if len(portfolio) == 0", and current_prices = get_multiple_prices(coin_ids);
\* or the arguments of a call of calculate_portfolio_value on its own.
Init ==
    /\ pc = "loaded"
    /\ \/ /\ caller = "dashboard"
          /\ \/ \E n \in 1..MaxHoldings : \E qs \in [1..n -> InputSamples] : Loaded(qs)
             \/ \E qs \in BoundaryPortfolios : Loaded(qs)
       \/ /\ caller = "call"
          /\ \E qs \in CallSamples : Len(qs) <= MaxHoldings /\ Loaded(qs)
    /\ valuation = None
    /\ risk = None
    /\ confidence = None
    /\ var_amount = None
    /\ diversification = None
    /\ rec_args = None
    /\ recommendations = None
    /\ risk_table = None
    /\ second_call = None
    /\ volatility = None
    /\ asset_risk = None
    /\ sessions = None
    /\ users = None
    /\ auth_calls = None
    /\ accounts = None
    /\ transactions = None

\* The arguments as calculate_portfolio_value leaves them.  The loop reads
\* holding['id'], holding['amount'], holding['name'] and holding.get(...),
\* which inserts no default, tests "coin_id in current_prices" before it
\* reads current_prices[coin_id], and appends dicts it builds itself to its
\* own list results: it stores into neither argument.
calculate_portfolio_value_args(holdings, prices) == <<holdings, prices>>

\* calculate_portfolio_risk with a loop that stores abs(change_24h) back
\* into each record of its argument.
calculate_portfolio_risk_args_abs_in_place(hd) ==
    [i \in DOMAIN hd |-> [hd[i] EXCEPT !.change_24h = RAbs(@)]]

\* The holdings list as calculate_portfolio_risk leaves it: the function
\* reads h['current_value'] and h.get('change_24h', 0) into locals and
\* stores into no record and not into the list.
calculate_portfolio_risk_args(hd) == hd

\* The holdings list as calculate_var leaves it: h['current_value'] and
\* h.get('change_24h', 0) are read into locals.
calculate_var_args(hd) == hd

\* The holdings list as get_diversification_score leaves it:
\* holding['current_value'] is read into the local weight.
get_diversification_score_args(hd) == hd

\* The holdings list as get_recommendations leaves it: h['current_value'],
\* h['name'] and h.get('profit_loss', 0) are read; recommendations and
\* losing_coins are lists of its own.
get_recommendations_args(hd) == hd

holdings_data == valuation.results

\* app.py: holdings_data, total_value, ... = calculate_portfolio_value(portfolio, current_prices)
CalculatePortfolioValue ==
    /\ pc = "loaded"
    /\ valuation' = calculate_portfolio_value(portfolio, current_prices)
    /\ portfolio' = calculate_portfolio_value_args(portfolio, current_prices)[1]
    /\ current_prices' = calculate_portfolio_value_args(portfolio, current_prices)[2]
    /\ pc' = "valued"
    /\ UNCHANGED <<caller, second_call, asset_vars, ledger_vars, session_vars, auth_vars>>
    /\ UNCHANGED <<risk, confidence, var_amount, diversification, rec_args,
                   recommendations, risk_table>>

\* calculate_portfolio_value(portfolio, current_prices) called twice in a
\* row, the second time on the arguments as the first call left them.
CalculatePortfolioValueTwice ==
    /\ pc = "loaded"
    /\ valuation' = calculate_portfolio_value(portfolio, current_prices)
    /\ second_call' =
           [function |-> "calculate_portfolio_value",
            returned |-> calculate_portfolio_value(
                calculate_portfolio_value_args(portfolio, current_prices)[1],
                calculate_portfolio_value_args(portfolio, current_prices)[2])]
    /\ portfolio' = calculate_portfolio_value_args(
                        calculate_portfolio_value_args(portfolio, current_prices)[1],
                        calculate_portfolio_value_args(portfolio, current_prices)[2])[1]
    /\ current_prices' = calculate_portfolio_value_args(
                             calculate_portfolio_value_args(portfolio, current_prices)[1],
                             calculate_portfolio_value_args(portfolio, current_prices)[2])[2]
    /\ pc' = "called_twice"
    /\ UNCHANGED <<caller, asset_vars, ledger_vars, session_vars, auth_vars>>
    /\ UNCHANGED <<risk, confidence, var_amount, diversification, rec_args,
                   recommendations, risk_table>>

\* app.py: risk_score, risk_label, risk_color = calculate_portfolio_risk(holdings_data)
CalculatePortfolioRisk ==
    /\ pc = "valued"
    /\ risk' = calculate_portfolio_risk(holdings_data)
    /\ valuation' = [valuation EXCEPT
                        !.results = calculate_portfolio_risk_args(holdings_data)]
    /\ pc' = "risk"
    /\ UNCHANGED <<caller, second_call, asset_vars, ledger_vars, session_vars, auth_vars>>
    /\ UNCHANGED <<portfolio, current_prices, confidence, var_amount,
                   diversification, rec_args, recommendations, risk_table>>

\* calculate_portfolio_risk(holdings_data) called twice in a row, the second
\* time on the list as the first call left it.
CalculatePortfolioRiskTwice ==
    /\ pc = "valued"
    /\ risk' = calculate_portfolio_risk(holdings_data)
    /\ second_call' =
           [function |-> "calculate_portfolio_risk",
            returned |-> calculate_portfolio_risk(
                             calculate_portfolio_risk_args(holdings_data))]
    /\ valuation' = [valuation EXCEPT
                        !.results = calculate_portfolio_risk_args(
                                        calculate_portfolio_risk_args(holdings_data))]
    /\ pc' = "called_twice"
    /\ UNCHANGED <<caller, asset_vars, ledger_vars, session_vars, auth_vars>>
    /\ UNCHANGED <<portfolio, current_prices, confidence, var_amount,
                   diversification, rec_args, recommendations, risk_table>>

\* app.py: var_amount = calculate_var(holdings_data), the confidence defaulted.
CalculateVar ==
    /\ pc = "risk"
    /\ confidence' = DefaultConfidence
    /\ var_amount' = calculate_var(holdings_data, DefaultConfidence)
    /\ valuation' = [valuation EXCEPT !.results = calculate_var_args(holdings_data)]
    /\ pc' = "var"
    /\ UNCHANGED <<caller, second_call, asset_vars, ledger_vars, session_vars, auth_vars>>
    /\ UNCHANGED <<portfolio, current_prices, risk,
                   diversification, rec_args, recommendations, risk_table>>

\* calculate_var(holdings_data, confidence) called with the confidence given:
\* a call of the function on its own, which the dashboard does not continue.
CalculateVarWithConfidence ==
    /\ pc = "risk"
    /\ \E c \in ConfidenceSamples :
         /\ confidence' = c
         /\ var_amount' = calculate_var(holdings_data, c)
    /\ valuation' = [valuation EXCEPT !.results = calculate_var_args(holdings_data)]
    /\ pc' = "var_only"
    /\ UNCHANGED <<caller, second_call, asset_vars, ledger_vars, session_vars, auth_vars>>
    /\ UNCHANGED <<portfolio, current_prices, risk,
                   diversification, rec_args, recommendations, risk_table>>

\* calculate_var(holdings_data) called twice in a row, the second time on
\* the list as the first call left it.
CalculateVarTwice ==
    /\ pc = "risk"
    /\ confidence' = DefaultConfidence
    /\ var_amount' = calculate_var(holdings_data, DefaultConfidence)
    /\ second_call' =
           [function |-> "calculate_var",
            returned |-> calculate_var(calculate_var_args(holdings_data),
                                       DefaultConfidence)]
    /\ valuation' = [valuation EXCEPT
                        !.results = calculate_var_args(calculate_var_args(holdings_data))]
    /\ pc' = "called_twice"
    /\ UNCHANGED <<caller, asset_vars, ledger_vars, session_vars, auth_vars>>
    /\ UNCHANGED <<portfolio, current_prices, risk,
                   diversification, rec_args, recommendations, risk_table>>

\* app.py: div_score, div_recommendation = get_diversification_score(holdings_data)
GetDiversificationScore ==
    /\ pc = "var"
    /\ \E ups \in PowChoices(holdings_data) :
         diversification' = get_diversification_score(holdings_data, ups)
    /\ valuation' = [valuation EXCEPT
                        !.results = get_diversification_score_args(holdings_data)]
    /\ pc' = "div"
    /\ UNCHANGED <<caller, second_call, asset_vars, ledger_vars, session_vars, auth_vars>>
    /\ UNCHANGED <<portfolio, current_prices, risk, confidence,
                   var_amount, rec_args, recommendations, risk_table>>

\* get_diversification_score(holdings_data) called twice in a row, the
\* second time on the list as the first call left it.  The C library's pow
\* is a function: in both calls it rounds the square of a weight the same
\* way.
GetDiversificationScoreTwice ==
    /\ pc = "var"
    /\ \E ups \in PowChoices(holdings_data) :
         /\ diversification' = get_diversification_score(holdings_data, ups)
         /\ second_call' =
                [function |-> "get_diversification_score",
                 returned |-> get_diversification_score(
                                  get_diversification_score_args(holdings_data), ups)]
    /\ valuation' = [valuation EXCEPT
                        !.results = get_diversification_score_args(
                                        get_diversification_score_args(holdings_data))]
    /\ pc' = "called_twice"
    /\ UNCHANGED <<caller, asset_vars, ledger_vars, session_vars, auth_vars>>
    /\ UNCHANGED <<portfolio, current_prices, risk, confidence,
                   var_amount, rec_args, recommendations, risk_table>>

\* app.py: recommendations = get_recommendations(holdings_data, risk_score, div_score)
\* rec_args keeps the two scores passed.
GetRecommendations ==
    /\ pc = "div"
    /\ rec_args' = <<risk[1], diversification[1]>>
    /\ recommendations' =
           get_recommendations(holdings_data, risk[1], diversification[1])
    /\ valuation' = [valuation EXCEPT
                        !.results = get_recommendations_args(holdings_data)]
    /\ pc' = "recs"
    /\ UNCHANGED <<caller, second_call, asset_vars, ledger_vars, session_vars, auth_vars>>
    /\ UNCHANGED <<portfolio, current_prices, risk, confidence,
                   var_amount, diversification, risk_table>>

\* get_recommendations(holdings_data, portfolio_risk_score, div_score) called
\* with scores of the caller's choosing: a call of the function on its own,
\* which the dashboard does not continue.
GetRecommendationsWithScores ==
    /\ pc = "div"
    /\ \E a \in ScoreSamples :
         /\ rec_args' = a
         /\ recommendations' = get_recommendations(holdings_data, a[1], a[2])
    /\ valuation' = [valuation EXCEPT
                        !.results = get_recommendations_args(holdings_data)]
    /\ pc' = "recs_only"
    /\ UNCHANGED <<caller, second_call, asset_vars, ledger_vars, session_vars, auth_vars>>
    /\ UNCHANGED <<portfolio, current_prices, risk, confidence,
                   var_amount, diversification, risk_table>>

\* get_recommendations(holdings_data, risk_score, div_score) called twice in
\* a row, the second time on the list as the first call left it.
GetRecommendationsTwice ==
    /\ pc = "div"
    /\ rec_args' = <<risk[1], diversification[1]>>
    /\ recommendations' =
           get_recommendations(holdings_data, risk[1], diversification[1])
    /\ second_call' =
           [function |-> "get_recommendations",
            returned |-> get_recommendations(get_recommendations_args(holdings_data),
                                             risk[1], diversification[1])]
    /\ valuation' = [valuation EXCEPT
                        !.results = get_recommendations_args(
                                        get_recommendations_args(holdings_data))]
    /\ pc' = "called_twice"
    /\ UNCHANGED <<caller, asset_vars, ledger_vars, session_vars, auth_vars>>
    /\ UNCHANGED <<portfolio, current_prices, risk, confidence,
                   var_amount, diversification, risk_table>>

\* sum(h.get('change_24h', 0) for h in holdings_data), from holding i on.
RECURSIVE sum_change_24h(_, _, _)
sum_change_24h(hd, i, acc) ==
    IF i > Len(hd) THEN acc
    ELSE sum_change_24h(hd, i + 1, RAdd(acc, hd[i].change_24h))

\* avg_change = sum(...) / len(holdings_data)
avg_change_of(hd) == RDiv(sum_change_24h(hd, 1, R(0)), R(Len(hd)))

\* app.py, "Bitcoin Benchmark Comparison": btc_price, btc_change =
\* get_crypto_price('bitcoin') and, under "if btc_price and btc_change",
\* avg_change = sum(change_24h of the holdings) / len(holdings_data), which
\* raises ZeroDivisionError when no holding is quoted: the script ends there.
BitcoinBenchmark ==
    /\ pc = "recs"
    /\ caller = "dashboard"
    /\ \E btc \in BenchmarkSamples :
         pc' = IF /\ btc # NoQuote /\ btc[1] # R(0) /\ btc[2] # R(0)
                  /\ Raised(avg_change_of(holdings_data))
               THEN "ZeroDivisionError"
               ELSE "benchmark"
    /\ UNCHANGED <<caller, second_call, asset_vars, ledger_vars, session_vars, auth_vars>>
    /\ UNCHANGED <<portfolio, current_prices, valuation, risk, confidence,
                   var_amount, diversification, rec_args, recommendations,
                   risk_table>>

\* app.py, from the Performance tab to the Risk Analysis tab.
\* perf_cols = st.columns(len(holdings_data)) raises StreamlitAPIException
\* when no holding is quoted (the number of columns must be positive): the
\* script ends there.  Otherwise the risk table gets one row per holding with
\* calculate_risk_score and calculate_risk_level of its change_24h.
RenderRiskTable ==
    /\ pc = "benchmark"
    /\ IF Len(holdings_data) = 0
       THEN /\ pc' = "StreamlitAPIException"
            /\ risk_table' = risk_table
       ELSE /\ pc' = "done"
            /\ risk_table' =
                   [i \in DOMAIN holdings_data |->
                       [name |-> holdings_data[i].name,
                        score |-> calculate_risk_score(holdings_data[i].change_24h),
                        level |-> calculate_risk_level(holdings_data[i].change_24h)[1]]]
    /\ UNCHANGED <<caller, second_call, asset_vars, ledger_vars, session_vars, auth_vars>>
    /\ UNCHANGED <<portfolio, current_prices, valuation, risk, confidence,
                   var_amount, diversification, rec_args, recommendations>>

Next ==
    \/ CalculatePortfolioValue
    \/ CalculatePortfolioValueTwice
    \/ CalculatePortfolioRisk
    \/ CalculatePortfolioRiskTwice
    \/ CalculateVar
    \/ CalculateVarWithConfidence
    \/ CalculateVarTwice
    \/ GetDiversificationScore
    \/ GetDiversificationScoreTwice
    \/ GetRecommendations
    \/ GetRecommendationsWithScores
    \/ GetRecommendationsTwice
    \/ BitcoinBenchmark
    \/ RenderRiskTable

SpecEngine == Init /\ [][Next]_vars

(***************************************************************************)
(* The per-asset functions calculate_risk_score and calculate_risk_level   *)
(* called on one 24h change, as the rows of the holdings table and of the  *)
(* risk table call them.  The change is any multiple of 0.1% up to         *)
(* MaxChangeTenths / 10 percent, above or below 0.                         *)
(***************************************************************************)
InitAsset ==
    /\ caller = None
    /\ pc = "asset"
    /\ \E t \in -MaxChangeTenths..MaxChangeTenths : volatility = Rat(t, 10)
    /\ asset_risk = None
    /\ sessions = None
    /\ users = None
    /\ auth_calls = None
    /\ accounts = None
    /\ transactions = None
    /\ portfolio = <<>>
    /\ current_prices = <<>>
    /\ valuation = None
    /\ risk = None
    /\ confidence = None
    /\ var_amount = None
    /\ diversification = None
    /\ rec_args = None
    /\ recommendations = None
    /\ risk_table = None
    /\ second_call = None

\* app.py: score = calculate_risk_score(h.get('change_24h', 0));
\*         level, color = calculate_risk_level(h.get('change_24h', 0))
AssessAsset ==
    /\ pc = "asset"
    /\ asset_risk' = [score |-> calculate_risk_score(volatility),
                      level |-> calculate_risk_level(volatility)[1],
                      color |-> calculate_risk_level(volatility)[2]]
    /\ pc' = "assessed"
    /\ UNCHANGED <<caller, volatility, portfolio, current_prices, valuation, risk,
                   confidence, var_amount, diversification, rec_args,
                   recommendations, risk_table, second_call, ledger_vars,
                   session_vars, auth_vars>>

NextAsset == AssessAsset

SpecAsset == InitAsset /\ [][NextAsset]_vars

(***************************************************************************)
(* The ledger of one user: the transaction form, the delete form and the   *)
(* Clear All Data button of app.py.  portfolio.py takes no lock and writes *)
(* its files in place, so a handler is a sequence of file operations:      *)
(* load_transactions reads the ledger; save_transactions opens the file    *)
(* for writing, which empties it, and then writes the local list;          *)
(* update_holdings computes the portfolio from the local list and          *)
(* save_portfolio opens the portfolio file, which empties it, and writes   *)
(* it.  transactions and portfolio are the files as load_transactions and  *)
(* load_portfolio read them: a file that is empty, or that holds a text    *)
(* that does not parse, loads as [].  sessions[s] is the position of       *)
(* session s in its handler, with the handler's arguments, its local       *)
(* transactions list and the portfolio its script loaded.                  *)
(***************************************************************************)
engine_vars == <<caller, current_prices, valuation, risk, confidence, var_amount,
                 diversification, rec_args, recommendations, risk_table,
                 second_call>>

\* A session that is in no handler.
Idle ==
    [step |-> "form", op |-> "", coin_id |-> "", type |-> "", amount |-> R(0),
     price |-> R(0), del_id |-> 0, local |-> <<>>, page_portfolio |-> <<>>]

\* The end of a handler: st.rerun(), or the end of a script that did not
\* reach the handler.  A session of SpecLedger is then ready for its next
\* handler; one of SpecSessions has run its only handler.
Return(s) ==
    IF pc = "ledger" THEN [sessions EXCEPT ![s] = Idle]
    ELSE [sessions EXCEPT ![s].step = "returned"]

\* What the portfolio file holds after json.dump of list written by a
\* writer that opened it with open(filepath, 'w').  That open emptied the
\* file, so whatever the file holds now the other session has written
\* since, at the start of the file; this write goes to the start of the
\* file too and does not shorten it.  Over "[]" the file is the text
\* written, and so it is over an equal list, whose text is as long (every
\* number of a holding is a float); a text written over a longer one
\* leaves the tail of the longer one behind it, which does not parse and
\* loads as []; which of two different texts is the longer one depends on
\* their bytes, so both outcomes are taken.  With the two sessions of this
\* model a file that does not parse has no writer left.
Written(file, list) ==
    IF file = <<>> \/ file = list THEN {list}
    ELSE IF list = <<>> THEN {<<>>}
    ELSE {list, <<>>}

\* The same for the ledger file.  The texts of two equal ledgers can differ
\* in length: price_per_coin is written as 3 when get_crypto_price
\* answered the whole JSON number 3 and as 3.0 when the price was typed in
\* the form, so a ledger written over an equal one also leaves either the
\* text written or a file that does not parse.
WrittenTransactions(file, list) ==
    IF file = <<>> THEN {list}
    ELSE IF list = <<>> THEN {<<>>}
    ELSE {list, <<>>}

\* app.py, add_transaction_form: "if submitted and amount > 0", "if price > 0",
\* then add_transaction up to save_transactions:
\* transactions = load_transactions(username); transactions.append(transaction).
\* In SpecLedger the ledger holds at most MaxTxns transactions.
SubmitTransaction(s) ==
    /\ sessions[s].step = "form"
    /\ pc = "ledger" => Len(transactions) < MaxTxns
    /\ \E coin_id \in LedgerCoins, t \in TxnSamples :
         /\ RGt(R(t[2]), R(0))
         /\ RGt(R(t[3]), R(0))
         /\ sessions' = [sessions EXCEPT ![s] =
                [Idle EXCEPT !.step = "loaded", !.op = "add", !.coin_id = coin_id,
                             !.type = t[1], !.amount = R(t[2]), !.price = R(t[3]),
                             !.local = add_transaction(transactions, CoinName(coin_id),
                                                       coin_id, R(t[2]), R(t[3]), t[1])]]
    /\ UNCHANGED <<pc, portfolio, transactions, engine_vars, asset_vars, auth_vars>>

\* The ids the delete form can be given: st.number_input(min_value=1, step=1)
\* takes any whole number from 1 on; those above MaxTxns, which are the id
\* of no transaction, are taken as one.
DeleteIds == 1..(MaxTxns + 1)

\* app.py, "Delete Transaction" pressed with an id in the number input: the
\* script runs again from the top and reads the portfolio,
\* portfolio = load_portfolio(username).
PressDelete(s) ==
    /\ sessions[s].step = "form"
    /\ \E del_id \in DeleteIds :
         sessions' = [sessions EXCEPT ![s] =
             [Idle EXCEPT !.step = "page_portfolio_loaded", !.op = "delete",
                          !.del_id = del_id, !.page_portfolio = portfolio]]
    /\ UNCHANGED <<pc, portfolio, transactions, engine_vars, asset_vars, auth_vars>>

\* app.py, the script on its way to the delete form:
\* transactions = load_transactions(username); the form is in the else
\* branch of "if len(portfolio) == 0" and under "if transactions", behind
\* the dashboard's benchmark and st.columns(len(holdings_data)), which raise
\* when no holding of the portfolio is quoted.  A script that does not reach
\* the form deletes nothing.
RunScriptToDeleteForm(s) ==
    /\ sessions[s].step = "page_portfolio_loaded"
    /\ \E quoted \in BOOLEAN :
         sessions' =
             IF /\ Len(sessions[s].page_portfolio) > 0
                /\ Len(transactions) > 0
                /\ quoted
             THEN [sessions EXCEPT ![s].step = "delete"]
             ELSE Return(s)
    /\ UNCHANGED <<pc, portfolio, transactions, engine_vars, asset_vars, auth_vars>>

\* delete_transaction: transactions = load_transactions(username), then the
\* list without the transactions of that id.
LoadForDelete(s) ==
    /\ sessions[s].step = "delete"
    /\ sessions' = [sessions EXCEPT
           ![s].step = "loaded",
           ![s].local = delete_transaction(transactions, sessions[s].del_id)]
    /\ UNCHANGED <<pc, portfolio, transactions, engine_vars, asset_vars, auth_vars>>

\* save_transactions: open(filepath, 'w'), which empties the ledger file.
OpenTransactions(s) ==
    /\ sessions[s].step = "loaded"
    /\ transactions' = <<>>
    /\ sessions' = [sessions EXCEPT ![s].step = "ledger_open"]
    /\ UNCHANGED <<pc, portfolio, engine_vars, asset_vars, auth_vars>>

\* save_transactions: json.dump(transactions, f) of the local list.
WriteTransactions(s) ==
    /\ sessions[s].step = "ledger_open"
    /\ transactions' \in WrittenTransactions(transactions, sessions[s].local)
    /\ sessions' = [sessions EXCEPT ![s].step = "ledger_saved"]
    /\ UNCHANGED <<pc, portfolio, engine_vars, asset_vars, auth_vars>>

\* update_holdings(username, transactions) on the local list, up to
\* save_portfolio's open(filepath, 'w'), which empties the portfolio file.
OpenPortfolio(s) ==
    /\ sessions[s].step = "ledger_saved"
    /\ portfolio' = <<>>
    /\ sessions' = [sessions EXCEPT ![s].step = "portfolio_open"]
    /\ UNCHANGED <<pc, transactions, engine_vars, asset_vars, auth_vars>>

\* save_portfolio: json.dump(portfolio, f) of the portfolio update_holdings
\* computed from the local list; then the handler returns.
WritePortfolio(s) ==
    /\ sessions[s].step = "portfolio_open"
    /\ portfolio' \in Written(portfolio, update_holdings(sessions[s].local))
    /\ sessions' = Return(s)
    /\ UNCHANGED <<pc, transactions, engine_vars, asset_vars, auth_vars>>

\* app.py, "Clear All Data": save_portfolio(username, []), its
\* open(filepath, 'w'), which empties the portfolio file.
ClearOpenPortfolio(s) ==
    /\ sessions[s].step = "form"
    /\ portfolio' = <<>>
    /\ sessions' = [sessions EXCEPT ![s] =
           [Idle EXCEPT !.step = "clear_portfolio_open", !.op = "clear"]]
    /\ UNCHANGED <<pc, transactions, engine_vars, asset_vars, auth_vars>>

\* app.py, "Clear All Data": save_portfolio(username, []), its
\* json.dump([], f).
ClearWritePortfolio(s) ==
    /\ sessions[s].step = "clear_portfolio_open"
    /\ portfolio' \in Written(portfolio, <<>>)
    /\ sessions' = [sessions EXCEPT ![s].step = "clear_portfolio_saved"]
    /\ UNCHANGED <<pc, transactions, engine_vars, asset_vars, auth_vars>>

\* app.py, "Clear All Data": save_transactions(username, []), its
\* open(filepath, 'w'), which empties the ledger file.
ClearOpenTransactions(s) ==
    /\ sessions[s].step = "clear_portfolio_saved"
    /\ transactions' = <<>>
    /\ sessions' = [sessions EXCEPT ![s].step = "clear_ledger_open"]
    /\ UNCHANGED <<pc, portfolio, engine_vars, asset_vars, auth_vars>>

\* app.py, "Clear All Data": save_transactions(username, []), its
\* json.dump([], f); then st.rerun().
ClearWriteTransactions(s) ==
    /\ sessions[s].step = "clear_ledger_open"
    /\ transactions' \in WrittenTransactions(transactions, <<>>)
    /\ sessions' = Return(s)
    /\ UNCHANGED <<pc, portfolio, engine_vars, asset_vars, auth_vars>>

(***************************************************************************)
(* One session of a user, from a new account on: its handlers run one      *)
(* after the other.                                                        *)
(***************************************************************************)
InitLedger ==
    /\ caller = None
    /\ pc = "ledger"
    /\ transactions = <<>>
    /\ portfolio = <<>>
    /\ sessions = [s \in {1} |-> Idle]
    /\ current_prices = <<>>
    /\ valuation = None
    /\ risk = None
    /\ confidence = None
    /\ var_amount = None
    /\ diversification = None
    /\ rec_args = None
    /\ recommendations = None
    /\ risk_table = None
    /\ second_call = None
    /\ volatility = None
    /\ asset_risk = None
    /\ users = None
    /\ auth_calls = None
    /\ accounts = None

NextLedger ==
    \/ SubmitTransaction(1)
    \/ PressDelete(1)
    \/ RunScriptToDeleteForm(1)
    \/ LoadForDelete(1)
    \/ OpenTransactions(1)
    \/ WriteTransactions(1)
    \/ OpenPortfolio(1)
    \/ WritePortfolio(1)
    \/ ClearOpenPortfolio(1)
    \/ ClearWritePortfolio(1)
    \/ ClearOpenTransactions(1)
    \/ ClearWriteTransactions(1)

SpecLedger == InitLedger /\ [][NextLedger]_vars

(***************************************************************************)
(* Two sessions of the same user (two browser tabs, each its own script    *)
(* thread) that each run one handler: between the file operations of one   *)
(* the other may run.                                                      *)
(***************************************************************************)
Sessions == {1, 2}

\* The ledgers the two sessions start from: a new user's, and one with a
\* transaction already saved.
StartLedgers ==
    {<<>>, add_transaction(<<>>, "Bitcoin", "bitcoin", R(2), R(1), "buy")}

InitSessions ==
    /\ caller = None
    /\ pc = "sessions"
    /\ transactions \in StartLedgers
    /\ portfolio = update_holdings(transactions)
    /\ sessions = [s \in Sessions |-> Idle]
    /\ current_prices = <<>>
    /\ valuation = None
    /\ risk = None
    /\ confidence = None
    /\ var_amount = None
    /\ diversification = None
    /\ rec_args = None
    /\ recommendations = None
    /\ risk_table = None
    /\ second_call = None
    /\ volatility = None
    /\ asset_risk = None
    /\ users = None
    /\ auth_calls = None
    /\ accounts = None

NextSessions ==
    \E s \in Sessions :
        \/ SubmitTransaction(s)
        \/ PressDelete(s)
        \/ RunScriptToDeleteForm(s)
        \/ LoadForDelete(s)
        \/ OpenTransactions(s)
        \/ WriteTransactions(s)
        \/ OpenPortfolio(s)
        \/ WritePortfolio(s)
        \/ ClearOpenPortfolio(s)
        \/ ClearWritePortfolio(s)
        \/ ClearOpenTransactions(s)
        \/ ClearWriteTransactions(s)

SpecSessions == InitSessions /\ [][NextSessions]_vars

(***************************************************************************)
(* auth.py behind the login / signup page of app.py.  A username or a      *)
(* password is the sequence of its characters.  The user store maps a      *)
(* username to its entry; the entry's creation time is left out.  auth.py  *)
(* takes no lock and save_users writes users.json in place: it opens the   *)
(* file, which empties it, and then writes the local dict.  users is the   *)
(* file as load_users reads it: a file that is empty, or that holds a text *)
(* that does not parse, loads as {}.  Two sessions (two browsers on the    *)
(* login page) each make one call; between the file operations of one the  *)
(* other may run.                                                          *)
(***************************************************************************)
UsernameSamples == {<<>>, <<"a", "l">>, <<"a", "l", "i">>, <<"b", "o", "b", "1">>}
PasswordSamples == {<<>>, <<"p", "w", "1">>, <<"p", "w", "1", "2">>,
                    <<"p", "w", "1", "3">>}

\* hashlib.sha256(password.encode()).hexdigest(): the digest, a value that
\* the password determines and that differs for different passwords.
hash_password(password) == <<"sha256", password>>

\* Returns (success, message), and the local dict as the call has it when
\* it returns or calls save_users.
create_account(store, username, password) ==
    IF Len(username) = 0 \/ Len(password) = 0
    THEN [returned |-> <<FALSE, "Please fill in all fields">>, users |-> store]
    ELSE IF Len(username) < 3
    THEN [returned |-> <<FALSE, "Username must be at least 3 characters">>,
          users |-> store]
    ELSE IF Len(password) < 4
    THEN [returned |-> <<FALSE, "Password must be at least 4 characters">>,
          users |-> store]
    ELSE IF username \in DOMAIN store
    THEN [returned |-> <<FALSE, "Username already taken">>, users |-> store]
    ELSE [returned |-> <<TRUE, "Account created successfully!">>,
          users |-> [x \in DOMAIN store \cup {username} |->
                        IF x = username
                        THEN [password |-> hash_password(password)]
                        ELSE store[x]]]

check_login(store, username, password) ==
    IF username \in DOMAIN store
    THEN store[username].password = hash_password(password)
    ELSE FALSE

\* What users.json holds after json.dump of dict written by a writer that
\* opened it with open(USERS_FILE, 'w').  That open emptied the file, so
\* whatever the file holds now another writer has written since, at the
\* start of the file; this write goes to the start of the file too and does
\* not shorten it.  Over an empty file the file is the text written; over
\* another text it is the text written, or that text with the tail of the
\* other behind it, which does not parse and loads as {}: which one depends
\* on the lengths of the two texts, and those on the usernames and on the
\* creation times (str(datetime.now()) leaves out a microsecond part of 0).
WrittenUsers(file, dict) ==
    IF file = <<>> THEN {dict} ELSE {dict, <<>>}

\* A session on the login / signup page that has made no call.
OnPage ==
    [step |-> "page", call |-> "none", username |-> <<>>, password |-> <<>>,
     returned |-> <<FALSE, "">>, loaded |-> <<>>, local |-> <<>>]

\* The stores the two sessions start from: no account, and one account.
StartAccounts ==
    {{}, {<<(<<"a", "l", "i">>), (<<"p", "w", "1", "2">>)>>}}

\* The store that holds the given accounts (username and password).
StoreOf(created) ==
    [x \in {a[1] : a \in created} |->
        [password |-> hash_password((CHOOSE a \in created : a[1] = x)[2])]]

InitAuth ==
    /\ caller = None
    /\ pc = "auth"
    /\ accounts \in StartAccounts
    /\ users = StoreOf(accounts)
    /\ auth_calls = [s \in Sessions |-> OnPage]
    /\ portfolio = <<>>
    /\ current_prices = <<>>
    /\ valuation = None
    /\ risk = None
    /\ confidence = None
    /\ var_amount = None
    /\ diversification = None
    /\ rec_args = None
    /\ recommendations = None
    /\ risk_table = None
    /\ second_call = None
    /\ volatility = None
    /\ asset_risk = None
    /\ transactions = None
    /\ sessions = None

\* app.py, "Create Account": success, message = create_account(new_username,
\* new_password), up to save_users: the tests of the arguments, users =
\* load_users(), the test of the username and the new entry in the local
\* dict.  A call that is refused returns here; loaded is the store as
\* load_users returned it.
CreateAccount(s) ==
    /\ auth_calls[s].step = "page"
    /\ \E username \in UsernameSamples, password \in PasswordSamples :
         auth_calls' = [auth_calls EXCEPT ![s] =
             IF create_account(users, username, password).returned[1]
             THEN [step |-> "users_loaded", call |-> "create_account",
                   username |-> username, password |-> password,
                   returned |-> <<FALSE, "">>, loaded |-> users,
                   local |-> create_account(users, username, password).users]
             ELSE [step |-> "returned", call |-> "create_account",
                   username |-> username, password |-> password,
                   returned |-> create_account(users, username, password).returned,
                   loaded |-> users, local |-> <<>>]]
    /\ UNCHANGED <<pc, users, accounts, portfolio, engine_vars, asset_vars,
                   ledger_vars, session_vars>>

\* save_users: open(USERS_FILE, 'w'), which empties the file.
OpenUsers(s) ==
    /\ auth_calls[s].step = "users_loaded"
    /\ users' = <<>>
    /\ auth_calls' = [auth_calls EXCEPT ![s].step = "users_open"]
    /\ UNCHANGED <<pc, accounts, portfolio, engine_vars, asset_vars, ledger_vars,
                   session_vars>>

\* save_users: json.dump(users, f) of the local dict; then
\* return True, "Account created successfully!": the account is
\* acknowledged.
WriteUsers(s) ==
    /\ auth_calls[s].step = "users_open"
    /\ users' \in WrittenUsers(users, auth_calls[s].local)
    /\ auth_calls' = [auth_calls EXCEPT
           ![s].step = "returned",
           ![s].returned = <<TRUE, "Account created successfully!">>,
           ![s].local = <<>>]
    /\ accounts' = accounts \cup {<<auth_calls[s].username, auth_calls[s].password>>}
    /\ UNCHANGED <<pc, portfolio, engine_vars, asset_vars, ledger_vars, session_vars>>

\* app.py, "Login": check_login(username, password), which reads the file
\* once, whatever another session's save_users has made of it; the message
\* is the page's, the function returns the boolean.
CheckLogin(s) ==
    /\ auth_calls[s].step = "page"
    /\ \E username \in UsernameSamples, password \in PasswordSamples :
         auth_calls' = [auth_calls EXCEPT ![s] =
             [step |-> "returned", call |-> "check_login",
              username |-> username, password |-> password,
              returned |-> <<check_login(users, username, password), "">>,
              loaded |-> users, local |-> <<>>]]
    /\ UNCHANGED <<pc, users, accounts, portfolio, engine_vars, asset_vars,
                   ledger_vars, session_vars>>

NextAuth ==
    \E s \in Sessions :
        \/ CreateAccount(s)
        \/ OpenUsers(s)
        \/ WriteUsers(s)
        \/ CheckLogin(s)

SpecAuth == InitAuth /\ [][NextAuth]_vars

(***************************************************************************)
(* Helpers of the properties: sums written from the specification's        *)
(* formulas, not from the code's loops.  A property of a function's result *)
(* is stated at the step where the call has just returned; the later steps *)
(* leave that result unchanged.                                            *)
(***************************************************************************)
\* The sum of the first n terms of a sequence of floats, last term first.
RECURSIVE RSumTo(_, _)
RSumTo(s, n) == IF n = 0 THEN R(0) ELSE RAdd(s[n], RSumTo(s, n - 1))

\* The sum of a sequence of floats.
RSumSeq(s) == RSumTo(s, Len(s))

\* Two floats that differ by their rounding only: less than a billionth
\* apart.
Near(x, y) == RLt(RAbs(RSub(x, y)), Rat(1, 1000000000))

Valued == pc = "valued"
Quoted(h) == h.id \in DOMAIN current_prices
TotalOf(hd) == RSumSeq([i \in DOMAIN hd |-> hd[i].current_value])

\* sum_i (value_i / total_value) * |change_24h_i|
WeightedAbsChange(hd) ==
    LET total == TotalOf(hd)
    IN  RSumSeq([i \in DOMAIN hd |->
            RMul(RDiv(hd[i].current_value, total), RAbs(hd[i].change_24h))])

\* sum_i (value_i / total_value) * (|change_24h_i| / 100)
WeightedDailyVol(hd) ==
    LET total == TotalOf(hd)
    IN  RSumSeq([i \in DOMAIN hd |->
            RMul(RDiv(hd[i].current_value, total),
                 RDiv(RAbs(hd[i].change_24h), R(100)))])

(***************************************************************************)
(* C1: calculate_portfolio_value returns exactly one record for each       *)
(* holding whose id is a key of the price map, in the order of the input   *)
(* holdings, and none for any other holding; total_value and total_cost    *)
(* are the sums of current_value and cost_basis over the returned records  *)
(* only.                                                                   *)
(***************************************************************************)
C1_RecordsAndTotals ==
    Valued =>
        LET quoted == SelectSeq(portfolio, Quoted)
            res == valuation.results
        IN  /\ Len(res) = Len(quoted)
            /\ \A j \in DOMAIN res :
                 /\ res[j].id = quoted[j].id
                 /\ res[j].amount = quoted[j].amount
                 /\ res[j].cost_basis = quoted[j].total_cost
                 /\ res[j].current_value =
                        RMul(quoted[j].amount, current_prices[quoted[j].id].price)
            /\ valuation.total_value = RSumSeq([j \in DOMAIN res |-> res[j].current_value])
            /\ valuation.total_cost = RSumSeq([j \in DOMAIN res |-> res[j].cost_basis])

\* Two holdings are quoted around one that is not, and the unquoted one has a cost.
C1_Witness ==
    /\ pc = "valued"
    /\ Len(portfolio) = 3
    /\ Quoted(portfolio[1]) /\ ~Quoted(portfolio[2]) /\ Quoted(portfolio[3])
    /\ portfolio[2].total_cost # R(0)
    /\ Len(valuation.results) = 2
    /\ valuation.total_value # R(0)

(***************************************************************************)
(* C2: for every included holding the profit/loss percent is exactly 0     *)
(* when its cost basis is 0 and profit_loss / cost_basis * 100 for every   *)
(* other cost basis; the portfolio's total profit/loss percent follows the *)
(* same rule on total_cost.                                                *)
(***************************************************************************)
C2_ProfitLossPercent ==
    Valued =>
        /\ \A j \in DOMAIN valuation.results :
             LET r == valuation.results[j]
             IN  /\ r.profit_loss = RSub(r.current_value, r.cost_basis)
                 /\ r.cost_basis = R(0) => r.profit_loss_pct = R(0)
                 /\ r.cost_basis # R(0) =>
                        r.profit_loss_pct =
                            RMul(RDiv(r.profit_loss, r.cost_basis), R(100))
        /\ valuation.total_pl = RSub(valuation.total_value, valuation.total_cost)
        /\ valuation.total_cost = R(0) => valuation.total_pl_pct = R(0)
        /\ valuation.total_cost # R(0) =>
               valuation.total_pl_pct =
                   RMul(RDiv(valuation.total_pl, valuation.total_cost), R(100))

\* A call on a free holding (cost basis 0) with a value, beside one bought
\* at a loss.
C2_Witness ==
    /\ pc = "valued"
    /\ \E j \in DOMAIN valuation.results :
         /\ valuation.results[j].cost_basis = R(0)
         /\ valuation.results[j].current_value # R(0)
         /\ valuation.results[j].profit_loss_pct = R(0)
    /\ \E j \in DOMAIN valuation.results :
         /\ valuation.results[j].cost_basis # R(0)
         /\ valuation.results[j].profit_loss_pct = R(-20)

RiskDone == pc = "risk"
RecsDone == pc = "recs"

(***************************************************************************)
(* C3: calculate_portfolio_risk returns score 0 with label N/A when the    *)
(* holdings list is empty or the summed current value is 0; otherwise the  *)
(* score is min(sum_i (value_i / total_value) * |change_24h_i| / 15 * 100, *)
(* 100) rounded to one decimal, the weights taken from current value, and  *)
(* the label is Low when the score is < 30, Medium when 30 <= score < 60,  *)
(* High when score >= 60.                                                  *)
(***************************************************************************)
C3_PortfolioRisk ==
    RiskDone =>
        LET hd == holdings_data
        IN  IF Len(hd) = 0 \/ TotalOf(hd) = R(0)
            THEN risk[1] = R(0) /\ risk[2] = "N/A"
            ELSE LET s == Round(RMin(RMul(RDiv(WeightedAbsChange(hd), R(15)), R(100)),
                                     R(100)), 1)
                 IN  /\ risk[1] = s
                     /\ RLt(s, R(30)) => risk[2] = "Low Risk"
                     /\ RLe(R(30), s) /\ RLt(s, R(60)) => risk[2] = "Medium Risk"
                     /\ RLe(R(60), s) => risk[2] = "High Risk"

\* Several holdings of different weights and costs whose score is exactly 30.
C3_Witness ==
    /\ pc = "risk"
    /\ Len(holdings_data) = 3
    /\ \E i \in DOMAIN holdings_data :
         holdings_data[i].cost_basis # holdings_data[i].current_value
    /\ risk[1] = R(30)
    /\ risk[2] = "Medium Risk"

(***************************************************************************)
(* C4 as claimed: for every holdings list containing a single holding, the *)
(* score of calculate_portfolio_risk equals calculate_risk_score of that   *)
(* holding's 24h change.                                                   *)
(***************************************************************************)
C4_Original ==
    RiskDone /\ Len(holdings_data) = 1 =>
        risk[1] = calculate_risk_score(holdings_data[1].change_24h)

(***************************************************************************)
(* C4 as amended: for a single holding whose current value is not 0 the    *)
(* portfolio score equals calculate_risk_score of its 24h change; for a    *)
(* single holding of current value 0 the portfolio score is 0 (N/A).       *)
(***************************************************************************)
C4_SingleHolding ==
    RiskDone /\ Len(holdings_data) = 1 =>
        IF holdings_data[1].current_value # R(0)
        THEN risk[1] = calculate_risk_score(holdings_data[1].change_24h)
        ELSE risk[1] = R(0) /\ risk[2] = "N/A"

\* One holding with a value and a negative change: both scores are 80.
C4_Witness ==
    /\ pc = "risk"
    /\ Len(holdings_data) = 1
    /\ holdings_data[1].current_value # R(0)
    /\ holdings_data[1].change_24h = R(-12)
    /\ risk[1] = R(80)

\* Exactly one risk message, and it is the first entry.
OneRiskMessageFirst(expected) ==
    /\ Len(recommendations) >= 1
    /\ recommendations[1] = expected
    /\ \A i \in DOMAIN recommendations :
         i > 1 => recommendations[i] \notin {HighRisk, ModerateRisk, LowRisk}

(***************************************************************************)
(* C5 as claimed: on a non-empty holdings list get_recommendations emits   *)
(* exactly one risk message, first: the high-risk warning when the score   *)
(* is > 70, the moderate-risk note when 40 <= score <= 70, the low-risk    *)
(* reassurance for every other score.                                      *)
(***************************************************************************)
C5_Original ==
    RecsDone /\ Len(holdings_data) > 0 =>
        OneRiskMessageFirst(
            IF RGt(risk[1], R(70)) THEN HighRisk
            ELSE IF RGe(risk[1], R(40)) THEN ModerateRisk
            ELSE LowRisk)

(***************************************************************************)
(* C5 as amended: exactly one risk message, first: the high-risk warning   *)
(* when the score is > 70, the moderate-risk note when 40 < score <= 70,   *)
(* the low-risk reassurance for every other score (a score of exactly 40   *)
(* included).                                                              *)
(***************************************************************************)
C5_RiskMessage ==
    RecsDone /\ Len(holdings_data) > 0 =>
        OneRiskMessageFirst(
            IF RGt(risk[1], R(70)) THEN HighRisk
            ELSE IF RGt(risk[1], R(40)) /\ RLe(risk[1], R(70)) THEN ModerateRisk
            ELSE LowRisk)

\* A score of exactly 70 gets the moderate-risk note, followed by other messages.
C5_Witness ==
    /\ pc = "recs"
    /\ risk[1] = R(70)
    /\ recommendations[1] = ModerateRisk
    /\ Len(recommendations) >= 2

DivDone == pc = "div"

\* The value shares of hd.
Shares(hd) ==
    LET total == TotalOf(hd)
    IN  [i \in DOMAIN hd |-> RDiv(hd[i].current_value, total)]

\* The squares a share may have as a float: the two floats next to the
\* exact square (one float when the exact square is a float).
Squares(share) == {float_pow_2(share, FALSE), float_pow_2(share, TRUE)}

\* HHI: the sums of the squared value shares, for each way of giving every
\* share one of its squares (equal shares the same one).
HHIs(hd) ==
    LET shares == Shares(hd)
        values == {shares[i] : i \in DOMAIN shares}
    IN  {RSumSeq([i \in DOMAIN shares |-> sq[shares[i]]]) :
            sq \in {f \in [values -> UNION {Squares(v) : v \in values}] :
                       \A v \in values : f[v] \in Squares(v)}}

AllSameValue(hd) ==
    \A i, j \in DOMAIN hd : hd[i].current_value = hd[j].current_value

(***************************************************************************)
(* C6 as claimed: for every list of n >= 2 holdings that all have the same *)
(* current value, get_diversification_score returns a score of exactly     *)
(* 100.                                                                    *)
(***************************************************************************)
C6_Original ==
    DivDone /\ Len(holdings_data) >= 2 /\ AllSameValue(holdings_data) =>
        diversification[1] = R(100)

(***************************************************************************)
(* C6 as amended: for every list of n >= 2 holdings that all have the same *)
(* current value, and that value is not 0, the score is exactly 100; when  *)
(* the common value is 0 the result is (0, "No value").                    *)
(***************************************************************************)
C6_EqualValues ==
    DivDone /\ Len(holdings_data) >= 2 /\ AllSameValue(holdings_data) =>
        IF holdings_data[1].current_value # R(0)
        THEN diversification = <<R(100), "Good diversification">>
        ELSE diversification = <<R(0), "No value">>

\* Three holdings of the same value 8.
C6_Witness ==
    /\ pc = "div"
    /\ Len(holdings_data) = 3
    /\ \A i \in DOMAIN holdings_data : holdings_data[i].current_value = R(24)
    /\ diversification[1] = R(100)

(***************************************************************************)
(* C7: get_diversification_score applies its special cases in this         *)
(* precedence: an empty list gives (0, "No holdings"); a list of exactly   *)
(* one holding gives (10, "Very Low - Only 1 asset") whatever its value,   *)
(* value 0 included; two or more holdings whose values sum to 0 give       *)
(* (0, "No value").                                                        *)
(***************************************************************************)
C7_SpecialCases ==
    DivDone =>
        /\ Len(holdings_data) = 0 => diversification = <<R(0), "No holdings">>
        /\ Len(holdings_data) = 1 =>
               diversification = <<R(10), "Very Low - Only 1 asset">>
        /\ Len(holdings_data) >= 2 /\ TotalOf(holdings_data) = R(0) =>
               diversification = <<R(0), "No value">>

\* A single holding of value 0 scores 10.
C7_Witness ==
    /\ pc = "div"
    /\ Len(holdings_data) = 1
    /\ holdings_data[1].current_value = R(0)
    /\ diversification[1] = R(10)

(***************************************************************************)
(* C8: for n >= 2 holdings with positive total value the score is          *)
(* (1 - (HHI - 1/n) / (1 - 1/n)) * 100 rounded to one decimal, HHI the sum *)
(* of squared value shares (each square one of the floats next to the      *)
(* exact square), and the message is "Good diversification" when          *)
(* score >= 70, "Moderate - consider adding more assets" when              *)
(* 40 <= score < 70, "Low - portfolio is too concentrated" when score < 40.*)
(***************************************************************************)
C8_DiversificationFormula ==
    DivDone /\ Len(holdings_data) >= 2 /\ RGt(TotalOf(holdings_data), R(0)) =>
        LET n == Len(holdings_data)
            s == diversification[1]
        IN  /\ \E hhi \in HHIs(holdings_data) :
                   s = Round(RMul(RSub(R(1), RDiv(RSub(hhi, Rat(1, n)),
                                                  RSub(R(1), Rat(1, n)))),
                                  R(100)), 1)
            /\ RGe(s, R(70)) => diversification[2] = "Good diversification"
            /\ RGe(s, R(40)) /\ RLt(s, R(70)) =>
                   diversification[2] = "Moderate - consider adding more assets"
            /\ RLt(s, R(40)) =>
                   diversification[2] = "Low - portfolio is too concentrated"

\* Two holdings of values 4 and 24: HHI = 37/49, score 49.0, Moderate.
C8_Witness ==
    /\ pc = "div"
    /\ Len(holdings_data) = 2
    /\ holdings_data[1].current_value = R(4)
    /\ holdings_data[2].current_value = R(24)
    /\ diversification = <<R(49), "Moderate - consider adding more assets">>

VarDone == pc \in {"var", "var_only"}

(***************************************************************************)
(* C9: calculate_var returns 0 when the holdings list is empty or the      *)
(* total current value is 0; otherwise total_value * z * sum_i (value_i /  *)
(* total_value) * |change_24h_i| / 100 rounded to two decimals, z = 2.326  *)
(* when confidence >= 0.99 and 1.645 for every other confidence; the       *)
(* confidence defaults to 0.95.                                            *)
(***************************************************************************)
C9_ValueAtRisk ==
    VarDone =>
        LET hd == holdings_data
            z == IF RLe(Rat(99, 100), confidence) THEN Rat(2326, 1000)
                 ELSE Rat(1645, 1000)
        IN  /\ pc # "var_only" => confidence = Rat(95, 100)
            /\ IF Len(hd) = 0 \/ TotalOf(hd) = R(0)
               THEN var_amount = R(0)
               ELSE var_amount =
                        Round(RMul(RMul(TotalOf(hd), z), WeightedDailyVol(hd)), 2)

\* Confidence exactly 0.99 on two holdings: z is 2.326 and the VaR is not 0.
C9_Witness ==
    /\ pc = "var_only"
    /\ confidence = Rat(99, 100)
    /\ Len(holdings_data) = 2
    /\ holdings_data[1].current_value # holdings_data[2].current_value
    /\ RGt(var_amount, R(0))

\* The same holdings with every current value multiplied by k: the same
\* value shares and 24h changes, the total value k times as large.
RECURSIVE ScaledTo(_, _, _)
ScaledTo(hd, k, n) ==
    IF n = 0 THEN <<>>
    ELSE Append(ScaledTo(hd, k, n - 1),
                [hd[n] EXCEPT !.current_value = RMul(R(k), @)])

Scaled(hd, k) == ScaledTo(hd, k, Len(hd))

\* Two amounts less than a tenth of a cent apart.
SameCents(x, y) == RLt(RAbs(RSub(x, y)), Rat(1, 1000))

(***************************************************************************)
(* C10 as claimed: for two holdings lists with the same value shares, 24h  *)
(* changes and confidence, of total values V and k*V, calculate_var of the *)
(* second equals k times calculate_var of the first (the two are floats:   *)
(* they are equal when less than a tenth of a cent apart).                 *)
(***************************************************************************)
C10_Original ==
    VarDone =>
        \A k \in 1..MaxScale :
            SameCents(calculate_var(Scaled(holdings_data, k), confidence),
                      RMul(R(k), var_amount))

(***************************************************************************)
(* C10 as amended: calculate_var of the second differs from k times        *)
(* calculate_var of the first by at most (k + 1) * 0.005, the two          *)
(* roundings to cents (as floats: to within a tenth of a cent of that); it *)
(* is 0 when the first is 0 because the total value is 0.                  *)
(***************************************************************************)
C10_LinearUpToRounding ==
    VarDone =>
        \A k \in 1..MaxScale :
            LET second == calculate_var(Scaled(holdings_data, k), confidence)
            IN  /\ RLe(RAbs(RSub(second, RMul(R(k), var_amount))),
                       RAdd(RMul(R(k + 1), Rat(1, 200)), Rat(1, 1000)))
                /\ TotalOf(holdings_data) = R(0) => second = R(0)

\* Holdings with a VaR whose triple is not the VaR of the tripled holdings.
C10_Witness ==
    /\ pc = "var"
    /\ Len(holdings_data) >= 2
    /\ RGt(var_amount, R(0))
    /\ ~SameCents(calculate_var(Scaled(holdings_data, 3), confidence),
                  RMul(R(3), var_amount))

\* get_recommendations has just returned, called by the dashboard or on
\* its own.
RecsCalled == pc \in {"recs", "recs_only"}

IsRebalance(m) == m.name # ""

\* The indices of the holdings whose share of the total current value is
\* strictly greater than 60%.
Dominant(hd) ==
    LET total == TotalOf(hd)
    IN  {i \in DOMAIN hd :
            /\ RGt(total, R(0))
            /\ RGt(RDiv(hd[i].current_value, total), Rat(60, 100))}

(***************************************************************************)
(* C11: when the diversification score passed to get_recommendations is    *)
(* < 40, the list holds exactly one rebalancing message for every holding  *)
(* whose share of the total current value is strictly greater than 60%,    *)
(* naming the holding and its share in percent rounded to an integer, and  *)
(* no other rebalancing message, wherever in the list of holdings that     *)
(* holding stands; when the score is >= 40 the list holds no rebalancing   *)
(* message.                                                                *)
(***************************************************************************)
C11_Rebalancing ==
    RecsCalled =>
        LET hd == holdings_data
            total == TotalOf(hd)
            rb == SelectSeq(recommendations, IsRebalance)
            dom == Dominant(hd)
        IN  IF RLt(rec_args[2], R(40))
            THEN /\ Len(rb) = Cardinality(dom)
                 /\ \A i \in dom :
                      Cardinality({j \in DOMAIN rb :
                          /\ rb[j].name = hd[i].name
                          /\ rb[j].pct =
                                 Round(RMul(RDiv(hd[i].current_value, total), R(100)), 0)
                      }) = 1
            ELSE Len(rb) = 0

\* Three holdings, the last one with 62.5% of the value, and a score of 39.9
\* passed: one rebalancing message names the last holding with 62%.
C11_Witness ==
    /\ pc = "recs_only"
    /\ rec_args[2] = Rat(399, 10)
    /\ Len(holdings_data) = 3
    /\ holdings_data[3].current_value = R(80)
    /\ TotalOf(holdings_data) = R(128)
    /\ \E j \in DOMAIN recommendations :
         /\ recommendations[j].name = holdings_data[3].name
         /\ recommendations[j].pct = R(62)

\* The rule a message comes from: 1 the risk rule, 2 the fewer-than-3
\* holdings rule, 3 the rebalancing rule, 4 the performance rule; 0 for
\* any other message.
RuleOf(m) ==
    IF m \in {HighRisk, ModerateRisk, LowRisk} THEN 1
    ELSE IF m = AddMore THEN 2
    ELSE IF IsRebalance(m) THEN 3
    ELSE IF m = ReviewStrategy THEN 4
    ELSE 0

\* The position in hd of the holding a rebalancing message names.
NamedAt(hd, m) == CHOOSE i \in DOMAIN hd : hd[i].name = m.name

(***************************************************************************)
(* C12: the messages get_recommendations returns for a non-empty holdings  *)
(* list are in rule order: the risk message first, then the                *)
(* broaden-your-portfolio suggestion (present exactly when there are fewer *)
(* than 3 holdings), then the rebalancing messages in holdings order, then *)
(* the strategy-review warning; no message of a later rule precedes a      *)
(* message of an earlier rule.                                             *)
(***************************************************************************)
C12_RuleOrder ==
    RecsCalled /\ Len(holdings_data) > 0 =>
        LET recs == recommendations
        IN  /\ Len(recs) >= 1 /\ RuleOf(recs[1]) = 1
            /\ \A j \in DOMAIN recs : RuleOf(recs[j]) \in 1..4
            /\ \A j, k \in DOMAIN recs : j < k => RuleOf(recs[j]) <= RuleOf(recs[k])
            /\ Cardinality({j \in DOMAIN recs : recs[j] = AddMore}) =
                   (IF Len(holdings_data) < 3 THEN 1 ELSE 0)
            /\ Len(holdings_data) < 3 => recs[2] = AddMore
            /\ \A j, k \in DOMAIN recs :
                   j < k /\ IsRebalance(recs[j]) /\ IsRebalance(recs[k]) =>
                       NamedAt(holdings_data, recs[j]) < NamedAt(holdings_data, recs[k])
            /\ Cardinality({j \in DOMAIN recs : recs[j] = ReviewStrategy}) <= 1

\* All four rules fire on two holdings: risk, broaden, rebalance, review.
C12_Witness ==
    /\ pc = "recs"
    /\ Len(holdings_data) = 2
    /\ Len(recommendations) = 4
    /\ RuleOf(recommendations[1]) = 1
    /\ recommendations[2] = AddMore
    /\ IsRebalance(recommendations[3])
    /\ recommendations[4] = ReviewStrategy

(***************************************************************************)
(* C13: get_recommendations called with an empty holdings list returns a   *)
(* list of exactly one entry, the start-adding-assets message, whatever    *)
(* risk score and diversification score are passed; no other rule adds a   *)
(* message.                                                                *)
(***************************************************************************)
C13_EmptyHoldings ==
    RecsCalled /\ Len(holdings_data) = 0 => recommendations = <<StartAdding>>

\* A portfolio none of whose holdings is quoted, and the scores 100 and 39.9
\* passed: the only message is the start-adding one.
C13_Witness ==
    /\ pc = "recs_only"
    /\ Len(portfolio) > 0
    /\ Len(holdings_data) = 0
    /\ rec_args = <<R(100), Rat(399, 10)>>
    /\ recommendations = <<StartAdding>>

\* The holdings whose profit/loss is below 0.
Losing(hd) == {i \in DOMAIN hd : hd[i].profit_loss[1] < 0}

(***************************************************************************)
(* C14: get_recommendations emits the strategy-review warning exactly when *)
(* the number of holdings with profit/loss < 0 is strictly greater than    *)
(* half the number of holdings: 1 losing holding out of 2 does not trigger *)
(* it, and a holding with profit/loss 0 does not count as losing.          *)
(***************************************************************************)
C14_StrategyReview ==
    RecsCalled =>
        ((\E j \in DOMAIN recommendations : recommendations[j] = ReviewStrategy)
            <=> 2 * Cardinality(Losing(holdings_data)) > Len(holdings_data))

\* Two holdings, one at a loss and one with profit/loss exactly 0: no
\* warning.
C14_Witness ==
    /\ pc = "recs"
    /\ Len(holdings_data) = 2
    /\ holdings_data[1].profit_loss[1] < 0
    /\ holdings_data[2].profit_loss = R(0)
    /\ \A j \in DOMAIN recommendations : recommendations[j] # ReviewStrategy

Assessed == pc = "assessed"

(***************************************************************************)
(* C15: calculate_risk_level classifies by the absolute value of the 24h   *)
(* change: Low when |change| < 3, Medium when 3 <= |change| < 7, High when *)
(* |change| >= 7; a change c and the change -c get the same level.         *)
(***************************************************************************)
C15_RiskLevel ==
    Assessed =>
        LET a == IF volatility[1] < 0 THEN RSub(R(0), volatility) ELSE volatility
        IN  /\ RLt(a, R(3)) => asset_risk.level = "Low Risk"
            /\ RLe(R(3), a) /\ RLt(a, R(7)) => asset_risk.level = "Medium Risk"
            /\ RLe(R(7), a) => asset_risk.level = "High Risk"
            /\ calculate_risk_level(RSub(R(0), volatility)) =
                   <<asset_risk.level, asset_risk.color>>

\* A change of exactly -7% is High.
C15_Witness ==
    /\ pc = "assessed"
    /\ volatility = R(-7)
    /\ asset_risk.level = "High Risk"

\* x is a number: not the mark of a raised ZeroDivisionError.
IsNumber(x) == ~Raised(x)

(***************************************************************************)
(* C16: for every holdings list with quantities and cost bases >= 0 and    *)
(* every price map (quotes for only some of the holdings, for none of      *)
(* them, or quotes with price 0), calculate_portfolio_value and then       *)
(* calculate_portfolio_risk, calculate_var, get_diversification_score and  *)
(* get_recommendations on its output never divide by zero: every number    *)
(* they return is a number, and the zero cases return the sentinel         *)
(* results.                                                                *)
(***************************************************************************)
C16_NoDivisionByZero ==
    /\ Valued =>
          /\ IsNumber(valuation.total_value) /\ IsNumber(valuation.total_cost)
          /\ IsNumber(valuation.total_pl) /\ IsNumber(valuation.total_pl_pct)
          /\ \A j \in DOMAIN valuation.results :
                /\ IsNumber(valuation.results[j].current_value)
                /\ IsNumber(valuation.results[j].profit_loss)
                /\ IsNumber(valuation.results[j].profit_loss_pct)
    /\ RiskDone =>
          /\ IsNumber(risk[1])
          /\ valuation.total_value = R(0) => risk[2] = "N/A"
    /\ VarDone => IsNumber(var_amount)
    /\ DivDone =>
          /\ IsNumber(diversification[1])
          /\ Len(holdings_data) = 0 => diversification[2] = "No holdings"
    /\ RecsCalled =>
          \A j \in DOMAIN recommendations : IsNumber(recommendations[j].pct)

\* A call on three holdings, one of cost basis 0, one not quoted and the others
\* quoted at price 0: every function has returned, with the sentinels.
C16_Witness ==
    /\ pc = "recs"
    /\ Len(portfolio) = 3
    /\ Len(holdings_data) = 2
    /\ \E j \in DOMAIN holdings_data : holdings_data[j].cost_basis = R(0)
    /\ valuation.total_value = R(0)
    /\ risk = <<R(0), "N/A", "gray">>
    /\ var_amount = R(0)
    /\ diversification = <<R(0), "No value">>
    /\ Len(recommendations) >= 1

InRange(x) == RLe(R(0), x) /\ RLe(x, R(100))

\* |c| for a change c.
Magnitude(c) == IF c[1] < 0 THEN RSub(R(0), c) ELSE c

(***************************************************************************)
(* C17: the per-asset score of calculate_risk_score, the portfolio score   *)
(* of calculate_portfolio_risk and the score of get_diversification_score  *)
(* each lie between 0 and 100 inclusive for every input whose holding      *)
(* values are >= 0; the per-asset score is 100 whenever the absolute       *)
(* change is 15% or more, and the portfolio score is 100 whenever the      *)
(* value-weighted absolute change is 15% or more.                          *)
(***************************************************************************)
C17_ScoresInRange ==
    /\ RiskDone =>
          /\ InRange(risk[1])
          /\ (RGt(TotalOf(holdings_data), R(0))
               /\ RGe(WeightedAbsChange(holdings_data), R(15))) => risk[1] = R(100)
    /\ DivDone => InRange(diversification[1])
    /\ pc = "done" =>
          \A i \in DOMAIN risk_table :
              /\ InRange(risk_table[i].score)
              /\ RGe(Magnitude(holdings_data[i].change_24h), R(15)) =>
                     risk_table[i].score = R(100)

\* Two holdings of the same value with changes 18% and -12%: the weighted
\* change is exactly 15, the portfolio score 100, the diversification score
\* 100, the per-asset scores 100 and 80.
C17_Witness ==
    /\ pc = "done"
    /\ Len(holdings_data) = 2
    /\ holdings_data[1].change_24h = R(18)
    /\ holdings_data[2].change_24h = R(-12)
    /\ WeightedAbsChange(holdings_data) = R(15)
    /\ risk[1] = R(100)
    /\ diversification[1] = R(100)
    /\ risk_table[1].score = R(100)
    /\ risk_table[2].score = R(80)

\* No handler is running: every operation so far has completed.
LedgerSaved == pc = "ledger" /\ sessions[1].step = "form"

(***************************************************************************)
(* C18: after any sequence of add_transaction, delete_transaction and      *)
(* Clear-All-Data operations of a user, every recorded amount and price    *)
(* being > 0, every holding in the user's saved portfolio (the one handed  *)
(* to calculate_portfolio_value) has a quantity strictly greater than 0    *)
(* and a cost basis greater than or equal to 0 (in every state, those      *)
(* where a save is in progress included).                                  *)
(***************************************************************************)
C18_SavedHoldings ==
    /\ \A k \in DOMAIN transactions :
          /\ RGt(transactions[k].amount, R(0))
          /\ RGt(transactions[k].price_per_coin, R(0))
    /\ \A i \in DOMAIN portfolio :
          /\ IsNumber(portfolio[i].amount)
          /\ IsNumber(portfolio[i].total_cost)
          /\ RGt(portfolio[i].amount, R(0))
          /\ RGe(portfolio[i].total_cost, R(0))

\* A coin oversold and then bought again is in the saved portfolio; the
\* other coin of the ledger, with no quantity left, is not.
C18_Witness ==
    /\ LedgerSaved
    /\ Len(transactions) = 3
    /\ transactions[1].type = "sell"
    /\ transactions[3].type = "buy"
    /\ transactions[1].coin_id = transactions[3].coin_id
    /\ \E k \in DOMAIN transactions :
         \A i \in DOMAIN portfolio : portfolio[i].id # transactions[k].coin_id
    /\ Len(portfolio) = 1
    /\ portfolio[1].id = transactions[1].coin_id

\* The entry of coin_id in holdings, or an entry of amount 0 and cost 0 when
\* the coin has none yet.
EntryOf(holdings, coin_id) ==
    IF \E i \in DOMAIN holdings : holdings[i].id = coin_id
    THEN holdings[CHOOSE i \in DOMAIN holdings : holdings[i].id = coin_id]
    ELSE [id |-> coin_id, total_amount |-> R(0), total_cost |-> R(0)]

(***************************************************************************)
(* C19: in update_holdings a sell of amount s from a coin that held a      *)
(* quantity q > s before the sell reduces the coin's cost basis to         *)
(* old_cost * (q - s) / q, so that the average cost per coin is unchanged  *)
(* by the sell (both up to the rounding of the floats); a sell that leaves *)
(* the quantity at 0 or below sets the cost basis to 0; the divisor of the *)
(* average cost is never 0.                                                *)
(***************************************************************************)
C19_SellCostBasis ==
    LedgerSaved =>
        \A k \in DOMAIN transactions :
            transactions[k].type = "sell" =>
                LET txn == transactions[k]
                    before == EntryOf(holdings_after(transactions, k - 1), txn.coin_id)
                    after == EntryOf(holdings_after(transactions, k), txn.coin_id)
                    q == before.total_amount
                    s == txn.amount
                IN  /\ IsNumber(after.total_cost)
                    /\ after.total_amount = RSub(q, s)
                    /\ IF RGt(q, s)
                       THEN /\ Near(after.total_cost,
                                    RDiv(RMul(before.total_cost, RSub(q, s)), q))
                            /\ Near(RDiv(after.total_cost, after.total_amount),
                                    RDiv(before.total_cost, q))
                       ELSE after.total_cost = R(0)

\* Two buys at different prices (quantity 3, cost 5), then a sell of 1: the
\* saved holding has quantity 2 and cost basis 10/3, average cost 5/3.
C19_Witness ==
    /\ LedgerSaved
    /\ Len(transactions) = 3
    /\ transactions[3].type = "sell"
    /\ Len(portfolio) = 1
    /\ portfolio[1].amount = R(2)
    /\ Near(portfolio[1].total_cost, Rat(10, 3))
    /\ Near(portfolio[1].avg_cost_basis, Rat(5, 3))

\* The result of the second of two calls in a row is the result of the
\* first.
SecondCallAgrees ==
    pc = "called_twice" =>
        second_call.returned =
            CASE second_call.function = "calculate_portfolio_value" -> valuation
              [] second_call.function = "calculate_portfolio_risk" -> risk
              [] second_call.function = "calculate_var" -> var_amount
              [] second_call.function = "get_diversification_score" -> diversification
              [] second_call.function = "get_recommendations" -> recommendations

RECURSIVE TotalAmount(_, _, _, _)
TotalAmount(txns, coin_id, type, n) ==
    IF n = 0 THEN R(0)
    ELSE IF txns[n].coin_id = coin_id /\ txns[n].type = type
    THEN RAdd(txns[n].amount, TotalAmount(txns, coin_id, type, n - 1))
    ELSE TotalAmount(txns, coin_id, type, n - 1)

\* Total bought minus total sold of coin_id over the whole ledger.
NetQuantity(txns, coin_id) ==
    RSub(TotalAmount(txns, coin_id, "buy", Len(txns)),
         TotalAmount(txns, coin_id, "sell", Len(txns)))

\* No session is in a handler: every operation that was started has
\* completed.
HandlersCompleted ==
    \A s \in DOMAIN sessions : sessions[s].step \in {"form", "returned"}

(***************************************************************************)
(* C21 as claimed: after every completed add_transaction,                  *)
(* delete_transaction or Clear-All-Data operation the saved portfolio is   *)
(* the replay of the whole saved ledger through update_holdings: a coin is *)
(* in the portfolio, once, if and only if its total bought minus total     *)
(* sold is > 0, its quantity is that difference and its avg_cost_basis is  *)
(* total_cost / quantity.                                                  *)
(***************************************************************************)
C21_PortfolioIsReplay ==
    HandlersCompleted =>
        /\ portfolio = update_holdings(transactions)
        /\ \A i \in DOMAIN portfolio :
              /\ portfolio[i].id \in {transactions[k].coin_id : k \in DOMAIN transactions}
              /\ portfolio[i].amount = NetQuantity(transactions, portfolio[i].id)
              /\ portfolio[i].avg_cost_basis =
                     RDiv(portfolio[i].total_cost, portfolio[i].amount)
              /\ \A j \in DOMAIN portfolio : portfolio[j].id = portfolio[i].id => j = i
        /\ \A k \in DOMAIN transactions :
              RGt(NetQuantity(transactions, transactions[k].coin_id), R(0)) =>
                  \E i \in DOMAIN portfolio : portfolio[i].id = transactions[k].coin_id

(***************************************************************************)
(* C22 as claimed: after any sequence of add_transaction and               *)
(* delete_transaction calls of one user no two transactions of the ledger  *)
(* have the same id, so that delete_transaction with a given id removes at *)
(* most one transaction.                                                   *)
(***************************************************************************)
C22_UniqueIds ==
    LedgerSaved =>
        /\ \A j, k \in DOMAIN transactions :
              transactions[j].id = transactions[k].id => j = k
        /\ \A transaction_id \in 1..MaxTxns :
              Len(delete_transaction(transactions, transaction_id)) >=
                  Len(transactions) - 1

\* Both calls of add_transaction have returned.
BothReturned ==
    /\ pc = "sessions"
    /\ \A s \in Sessions : sessions[s].step = "returned" /\ sessions[s].op = "add"

\* The transaction at position k of the saved ledger is the one session s
\* submitted.
IsTxnOf(k, s) ==
    /\ transactions[k].coin_id = sessions[s].coin_id
    /\ transactions[k].type = sessions[s].type
    /\ transactions[k].amount = sessions[s].amount
    /\ transactions[k].price_per_coin = sessions[s].price

(***************************************************************************)
(* C23 as claimed: when two sessions of the same user each run             *)
(* add_transaction and their steps interleave, both transactions are in    *)
(* the saved ledger once both calls have returned, and the saved portfolio *)
(* reflects both: it is the replay of that ledger.                         *)
(***************************************************************************)
C23_BothTransactionsSaved ==
    BothReturned =>
        /\ \E j, k \in DOMAIN transactions :
              j # k /\ IsTxnOf(j, 1) /\ IsTxnOf(k, 2)
        /\ portfolio = update_holdings(transactions)

\* The inputs create_account rejects: the username empty, shorter than 3
\* characters or taken in the store, the password empty or shorter than 4.
Rejected(store, username, password) ==
    \/ username = <<>>
    \/ Len(username) < 3
    \/ username \in DOMAIN store
    \/ password = <<>>
    \/ Len(password) < 4

\* Session s returns from its call in this step.
Returns(s) == auth_calls[s].step # "returned" /\ auth_calls'[s].step = "returned"

(***************************************************************************)
(* C24 as claimed: create_account never changes an existing account; when  *)
(* the username is empty, shorter than 3 characters or already taken, or   *)
(* the password is empty or shorter than 4 characters, it returns          *)
(* (False, message) and leaves the user store unchanged; when it returns   *)
(* True, check_login with the same username and password returns True;     *)
(* check_login returns False for every unknown username and every          *)
(* non-matching password.  An account is a username and the password it    *)
(* was created with; once every call has returned, every account that      *)
(* existed at the start or that create_account returned True for is in the *)
(* store and check_login accepts it.                                       *)
(***************************************************************************)
C24_Accounts ==
    /\ [][\A s \in Sessions :
            /\ (/\ Returns(s)
                /\ auth_calls'[s].call = "create_account"
                /\ Rejected(auth_calls'[s].loaded, auth_calls'[s].username,
                            auth_calls'[s].password)) =>
                      /\ auth_calls'[s].returned[1] = FALSE
                      /\ auth_calls'[s].returned[2] # ""
                      /\ users' = auth_calls'[s].loaded
            /\ (/\ Returns(s)
                /\ auth_calls'[s].call = "check_login"
                /\ <<auth_calls'[s].username, auth_calls'[s].password>>
                       \notin accounts) =>
                      auth_calls'[s].returned[1] = FALSE]_vars
    /\ []((\A s \in Sessions : auth_calls[s].step = "returned") =>
             \A a \in accounts :
                 /\ a[1] \in DOMAIN users
                 /\ check_login(users, a[1], a[2]))

====
